---- MODULE Spec2Model ----
(***************************************************************************)
(* Wireless pendant plugin: the Bluetooth Classic and BLE transport        *)
(* managers (connection lifecycle and reconnect state machine).            *)
(*                                                                         *)
(* One run models one manager object; `kind` says which class it is.       *)
(* The Bluetooth libraries are the environment: a connect attempt in       *)
(* flight is a record in `attempts`, each callback the library may invoke  *)
(* is an action, and the links the libraries hold open are in `open`.      *)
(*                                                                         *)
(* The inbound byte streams (transport data, esptool stdout/stderr) and    *)
(* the two flash engines of flasher.js have specifications of their own:   *)
(* SpecIO and SpecOTA.                                                     *)
(***************************************************************************)
EXTENDS Integers, Sequences, FiniteSets, TLC

\* ---------------------------------------------------------------- bounds
\* connect attempts (async call chains) in flight at the same time
MaxAttempts == 2
\* Bluetooth Classic link handles the library can hold open at once
MaxHandles == 2
\* listener counts saturate here ("this many or more")
MaxListeners == 2
\* characters kept in the partial-line buffer
MaxBuf == 1
\* failed connect attempts the environment of the retry-loop runs may cause
MaxFailures == 2
\* bytes of one inbound transport stream
MaxWire == 4
\* request 'error' events one OTA upload may see
MaxReqErrors == 2
\* bytes of the largest firmware image
MaxFileSize == 40000
\* calls of sendToDevice in a behaviour
MaxSent == 3

Null == 0
\* the paired devices of the Bluetooth Classic runs, the one peripheral of the BLE runs
BTDevices == {1, 2}
BLEDevices == {1}
Devices == BTDevices \cup BLEDevices
Origins == {"manual", "timer", "init"}
\* event emitters that carry close listeners: Null is the serial port object of
\* the Bluetooth Classic manager, a device is its BLE peripheral object
Emitters == {Null} \cup Devices
\* the callers know the SPP channel of device 1 and pass none for device 2
HasChannel(d) == d = 1

VARIABLES
  kind,                 \* "bt": BluetoothManager, "ble": BLEManager
  initialized,          \* this.btSerial / this.noble is set
  isShuttingDown,       \* this.isShuttingDown
  connectedDevice,      \* this.connectedDevice (Null or the device)
  clientId,             \* this.clientId (Null or the derived id)
  buffer,               \* this.buffer
  reconnectTimer,       \* this.reconnectTimer (Null or a timer id, possibly of a fired timer)
  connectedPeripheral,  \* BLE: this.connectedPeripheral
  rxCharacteristic,     \* BLE: this.rxCharacteristic is set
  txCharacteristic,     \* BLE: this.txCharacteristic is set
  btConnection,         \* BT: the link the serial port object holds (isOpen() iff not Null)
  timers,               \* the runtime's pending reconnect timeouts, each with its closure
  attempts,             \* connect attempts in flight
  settings,             \* the host's saved device settings (getSettings/setSettings)
  open,                 \* links currently open at the library level
  events,               \* links whose close event is queued, not yet delivered
  dataListeners,        \* 'data' listeners on the serial port (BT) or on the tx characteristic (BLE)
  closeListeners,       \* 'closed'+'failure' (BT) or 'disconnect' (BLE) listeners of each emitter
  adapter,              \* BLE adapter state (noble.state)
  failures,             \* connect failures caused so far, counted up to MaxFailures
  scan,                 \* BLE: this.isScanning, the adapter's scan, the pending scanDevices promises
  ev,                   \* history: the operation of the last step
  handler,              \* SpecIO: the data handler the stream runs through, "none" elsewhere
  wire,                 \* SpecIO: the bytes of the stream that have not arrived yet
  fed,                  \* SpecIO: the bytes that have arrived (of a flash tool: on stdout)
  fedErr,               \* SpecIO: the bytes that have arrived on stderr of the flash tool
  delivered,            \* SpecIO: what handleData gave the host, submitted messages and logged parse errors
  stdoutBuffer,         \* flashUSB: stdoutBuffer
  stderrBuffer,         \* flashUSB: stderrBuffer
  usbPc,                \* flashUSB: position of the invocation
  closedWith,           \* flashUSB: the code the 'close' event carried, as a set ({} before it)
  sent,                 \* SpecSend: the calls of sendToDevice, each with the writes it made
  emitted,              \* the events emitted on the emitter of the flash invocation
  ota                   \* flashOTA: the locals of the invocation, as one record

\* the variables of the transport manager, of the streams and of the flash engines
mgrVars == <<kind, initialized, isShuttingDown, connectedDevice, clientId, buffer,
             reconnectTimer, connectedPeripheral, rxCharacteristic, txCharacteristic,
             btConnection, timers, attempts, settings, open, events, dataListeners,
             closeListeners, adapter, failures, scan, ev>>
ioVars == <<handler, wire, fed, fedErr, delivered, stdoutBuffer, stderrBuffer, usbPc, closedWith,
            sent>>
flashVars == <<emitted, ota>>

vars == <<mgrVars, ioVars, flashVars>>

\* The state as one record, so that a method is an operator from state to state.
St ==
  [kind |-> kind, initialized |-> initialized, isShuttingDown |-> isShuttingDown,
   connectedDevice |-> connectedDevice, clientId |-> clientId, buffer |-> buffer,
   reconnectTimer |-> reconnectTimer, connectedPeripheral |-> connectedPeripheral,
   rxCharacteristic |-> rxCharacteristic, txCharacteristic |-> txCharacteristic,
   btConnection |-> btConnection, timers |-> timers, attempts |-> attempts,
   settings |-> settings, open |-> open, events |-> events,
   dataListeners |-> dataListeners, closeListeners |-> closeListeners,
   adapter |-> adapter, failures |-> failures, scan |-> scan]

Commit(post, e) ==
  \E s \in {post} :
  /\ kind' = s.kind
  /\ initialized' = s.initialized
  /\ isShuttingDown' = s.isShuttingDown
  /\ connectedDevice' = s.connectedDevice
  /\ clientId' = s.clientId
  /\ buffer' = s.buffer
  /\ reconnectTimer' = s.reconnectTimer
  /\ connectedPeripheral' = s.connectedPeripheral
  /\ rxCharacteristic' = s.rxCharacteristic
  /\ txCharacteristic' = s.txCharacteristic
  /\ btConnection' = s.btConnection
  /\ timers' = s.timers
  /\ attempts' = s.attempts
  /\ settings' = s.settings
  /\ open' = s.open
  /\ events' = s.events
  /\ dataListeners' = s.dataListeners
  /\ closeListeners' = s.closeListeners
  /\ adapter' = s.adapter
  /\ failures' = s.failures
  /\ scan' = s.scan
  /\ ev' = e
  /\ UNCHANGED <<ioVars, flashVars>>

\* ---------------------------------------------------------------- helpers
Min(a, b) == IF a < b THEN a ELSE b

\* the element of a one-element set
The(S) == CHOOSE x \in S : TRUE

RemoveAt(q, i) == SubSeq(q, 1, i - 1) \o SubSeq(q, i + 1, Len(q))

\* attempt i leaves the attempts in flight
Settled(s, i) == [s EXCEPT !.attempts = RemoveAt(@, i)]

\* the same, by a failure the environment caused
Failed(s, i) ==
  [s EXCEPT !.attempts = RemoveAt(@, i), !.failures = Min(@ + 1, MaxFailures)]

\* getStatus().connected
Connected(s) ==
  IF s.kind = "bt" THEN s.connectedDevice # Null ELSE s.connectedPeripheral # Null

\* `bt-${address.replace(/:/g, '')}` and `ble-${deviceId.replace(/[:-]/g, '')}`:
\* one id per transport and device, never Null
BTClientId(d) == 100 + d
BLEClientId(d) == 200 + d

\* no scan: isScanning is false, the adapter does not scan ("off"; "nus" and
\* "all" name the service filter of the scan it runs), no scanDevices promise
\* is pending
NoScan == [isScanning |-> FALSE, radio |-> "off", pending |-> 0]

NoEv == [op |-> "none", origin |-> "none", ov |-> FALSE]

\* a manual connect() call whose promise has not settled, other than attempt i
OtherManual(s, i) ==
  \E j \in 1..Len(s.attempts) :
    j # i /\ s.attempts[j].origin = "manual" /\ ~s.attempts[j].timedOut

\* every unsettled manual connect() call is marked as overlapping another one
MarkOverlap(q) ==
  [j \in 1..Len(q) |->
     IF q[j].origin = "manual" /\ ~q[j].timedOut THEN [q[j] EXCEPT !.ov = TRUE] ELSE q[j]]

\* the history record of a step: the operation, the origin of the attempt it
\* settles or starts, and (ov) whether it settles the last of overlapping
\* connect() calls.  Steps no property looks at are recorded as "other".
Ev(op, origin) == [op |-> op, origin |-> origin, ov |-> FALSE]

\* attempt i of state s settles its promise with op ("connected" or
\* "connectFailed"); callbacks that run after the promise was rejected by the
\* connect timeout settle nothing
SettleEv(s, i, op) ==
  LET a == s.attempts[i]
  IN IF a.timedOut THEN Ev("other", "none")
     ELSE [Ev(op, a.origin) EXCEPT !.ov = a.ov /\ ~OtherManual(s, i)]

\* a close event: "closeEvent" when it reaches a connected manager whose link
\* it is about, "closeEventLate" when it reaches a connected manager that
\* holds another, live link, "closeEventIdle" when the manager is not connected
CloseEv(s, late) ==
  Ev(IF ~Connected(s) THEN "closeEventIdle"
     ELSE IF late THEN "closeEventLate" ELSE "closeEvent", "none")

\* setTimeout returns a timer object distinct from every live one and from the
\* one the field still names
FreshTimer(s) ==
  LET used == {t.id : t \in s.timers} \cup {s.reconnectTimer}
  IN CHOOSE n \in 1..(Cardinality(used) + 1) : n \notin used

\* ---------------------------------------------------------------- shared methods
\* clearReconnectTimer(): clearTimeout of the timer the field names, field to null
clearReconnectTimer(s) ==
  IF s.reconnectTimer # Null
  THEN [s EXCEPT !.timers = {t \in @ : t.id # s.reconnectTimer},
                 !.reconnectTimer = Null]
  ELSE s

\* mutant: scheduleReconnect that arms the new timer without clearing the old one
scheduleReconnectNoClear(s) ==
  IF s.settings.device = Null \/ ~s.settings.auto
  THEN s
  ELSE LET id == FreshTimer(s)
       IN [s EXCEPT !.reconnectTimer = id,
                    !.timers = @ \cup {[id |-> id, dev |-> s.settings.device]}]

\* scheduleReconnect() up to setTimeout: the callback (with the saved device it
\* captured) is the timer record; ReconnectTimerFires runs it
\* mutant: scheduleReconnect that does not look at the settings
scheduleReconnectAlways(s) ==
  LET c == clearReconnectTimer(s)
      id == FreshTimer(c)
  IN [c EXCEPT !.reconnectTimer = id,
               !.timers = @ \cup {[id |-> id, dev |-> c.settings.device]}]

scheduleReconnect(s) ==
  LET c == clearReconnectTimer(s)
  IN IF c.settings.device = Null \/ ~c.settings.auto
     THEN c
     ELSE LET id == FreshTimer(c)
          IN [c EXCEPT !.reconnectTimer = id,
                       !.timers = @ \cup {[id |-> id, dev |-> c.settings.device]}]

\* mutant: a catch block that only logs the failure
AfterRejectNoRetry(s, origin) == s

\* what the caller of a rejected connect attempt does: connect() only rejects;
\* the initialize() auto-connect and the reconnect callback schedule a retry
\* mutant: every rejected attempt schedules a reconnect
AfterRejectAlwaysRetry(s, origin) == scheduleReconnect(s)

AfterReject(s, origin) ==
  IF origin = "manual" THEN s ELSE scheduleReconnect(s)

\* ---------------------------------------------------------------- Bluetooth Classic
\* btSerial.close() when isOpen(): the link closes, its 'closed' event follows later
BTclose(s) ==
  [s EXCEPT !.open = @ \ {s.btConnection},
            !.events = @ \cup {s.btConnection},
            !.btConnection = Null]

BTdisconnect(s) ==
  LET c == clearReconnectTimer(s)
      d == IF c.btConnection # Null THEN BTclose(c) ELSE c
  IN [d EXCEPT !.connectedDevice = Null, !.clientId = Null, !.buffer = <<>>]

BTshutdown(s) == BTdisconnect([s EXCEPT !.isShuttingDown = TRUE])

\* mutant: handleDisconnect that clears the session and schedules nothing
BThandleDisconnectNoSchedule(s) ==
  [s EXCEPT !.connectedDevice = Null, !.clientId = Null, !.buffer = <<>>]

BThandleDisconnect(s) ==
  LET c == [s EXCEPT !.connectedDevice = Null, !.clientId = Null, !.buffer = <<>>]
  IN IF ~c.isShuttingDown THEN scheduleReconnect(c) ELSE c

\* the 'closed' and the 'failure' listener registered by tryConnect
BTonClosed(s) == IF ~s.isShuttingDown THEN BThandleDisconnect(s) ELSE s

\* tryConnect up to its first suspension: the attempt waits for findChannel when
\* no channel was given, for the connect callbacks otherwise
BTtryConnect(s, origin, d, ov) ==
  [s EXCEPT !.attempts = Append(@, [origin |-> origin, dev |-> d,
                                    pc |-> IF HasChannel(d) THEN "connecting"
                                           ELSE "findChannel",
                                    timedOut |-> FALSE, ov |-> ov])]

\* ---- text.  A chunk is a sequence of bytes: the one-byte characters "1" (a
\* digit), "x" (a letter), " " and "\n", and the two bytes "L", "C" of one
\* two-byte UTF-8 character.  A string is a sequence of characters: the same
\* one-byte characters, "e" (the character L C encodes) and "?" (U+FFFD).
TransportBytes == {"1", "x", " ", "\n", "L", "C"}

\* Buffer.toString('utf8') of one chunk: a complete sequence decodes to its
\* character, every byte of an incomplete or stray one to U+FFFD
RECURSIVE toString(_)
toString(bytes) ==
  IF bytes = <<>> THEN <<>>
  ELSE IF bytes[1] = "L" /\ Len(bytes) >= 2 /\ bytes[2] = "C"
       THEN <<"e">> \o toString(SubSeq(bytes, 3, Len(bytes)))
  ELSE IF bytes[1] \in {"L", "C"}
       THEN <<"?">> \o toString(Tail(bytes))
  ELSE <<bytes[1]>> \o toString(Tail(bytes))

\* String.prototype.trim
RECURSIVE trim(_)
trim(str) ==
  IF str = <<>> THEN <<>>
  ELSE IF str[1] = " " THEN trim(Tail(str))
  ELSE IF str[Len(str)] = " " THEN trim(SubSeq(str, 1, Len(str) - 1))
  ELSE str

\* the decimal digits of the alphabets and the number a digit string denotes
\* (parseInt(str, 10))
DigitValue == [c \in {"1", "2", "4"} |-> IF c = "1" THEN 1 ELSE IF c = "2" THEN 2 ELSE 4]

RECURSIVE parseInt(_)
parseInt(str) ==
  IF str = <<>> THEN 0
  ELSE 10 * parseInt(SubSeq(str, 1, Len(str) - 1)) + DigitValue[str[Len(str)]]

\* JSON.parse(line) succeeds: over these characters the JSON texts are the
\* digit strings; the number parsed is written as its decimal numeral, which
\* is the line
IsJSON(line) == line # <<>> /\ \A k \in 1..Len(line) : line[k] \in DOMAIN DigitValue

\* buffer.indexOf('\n') + 1, 0 when there is none
indexOfNewline(b) ==
  IF \E k \in 1..Len(b) : b[k] = "\n"
  THEN CHOOSE k \in 1..Len(b) : b[k] = "\n" /\ \A m \in 1..(k - 1) : b[m] # "\n"
  ELSE 0

\* the while loop of handleData on the buffer text b: what it gives the host,
\* a submitted message or a logged parse error per non-empty line
RECURSIVE Deliveries(_)
Deliveries(b) ==
  LET idx == indexOfNewline(b)
      line == trim(SubSeq(b, 1, idx - 1))
      rest == Deliveries(SubSeq(b, idx + 1, Len(b)))
  IN IF idx = 0 THEN <<>>
     ELSE IF line = <<>> THEN rest
     ELSE IF IsJSON(line)
          THEN <<[type |-> "message", line |-> line, value |-> line]>> \o rest
     ELSE <<[type |-> "parseError", line |-> line, value |-> <<>>]>> \o rest

\* ---- the line framer of handleData: what stays buffered after the complete
\* lines have been taken out (the text after the last newline)
RECURSIVE Remainder(_)
Remainder(b) ==
  IF \E k \in 1..Len(b) : b[k] = "\n"
  THEN LET idx == CHOOSE k \in 1..Len(b) :
                    b[k] = "\n" /\ \A m \in 1..(k - 1) : b[m] # "\n"
       IN Remainder(SubSeq(b, idx + 1, Len(b)))
  ELSE b

handleData(s, chunk) == [s EXCEPT !.buffer = Remainder(@ \o toString(chunk))]

\* an event delivered to n listeners runs the same handler n times
RECURSIVE BTcloseToAll(_, _)
BTcloseToAll(s, n) ==
  IF n = 0 THEN s ELSE The({BTcloseToAll(x, n - 1) : x \in {BTonClosed(s)}})

RECURSIVE dataToAll(_, _, _)
dataToAll(s, chunk, n) ==
  IF n = 0 THEN s ELSE The({dataToAll(x, chunk, n - 1) : x \in {handleData(s, chunk)}})

\* what the n listeners of one 'data' event give the host, one after the other
RECURSIVE deliveriesOfAll(_, _, _)
deliveriesOfAll(s, chunk, n) ==
  IF n = 0 THEN <<>>
  ELSE Deliveries(s.buffer \o toString(chunk))
         \o deliveriesOfAll(handleData(s, chunk), chunk, n - 1)

\* the chunks of the sessions: part of a line, the end of a line, and a whole
\* JSON line
Chunks == {<<"x">>, <<"\n">>, <<"1", "\n">>}

\* the history record of a 'data' event: "submit" when the listeners gave the
\* host the messages of one pass of handleData over the chunk, "submitAgain"
\* when they gave it more than those, "data" when they gave it none
DataEv(s, chunk) ==
  LET all == deliveriesOfAll(s, chunk, s.dataListeners)
      msgs == {k \in 1..Len(all) : all[k].type = "message"}
      once == {k \in 1..Len(Deliveries(s.buffer \o toString(chunk))) :
                 Deliveries(s.buffer \o toString(chunk))[k].type = "message"}
  IN Ev(IF msgs = {} THEN "data"
        ELSE IF Cardinality(msgs) > Cardinality(once) THEN "submitAgain"
        ELSE "submit", "none")

\* ---- actions
\* initialize(): import the module, register the transport, auto-connect
BTInitialize(available) ==
  /\ kind = "bt" /\ ~initialized
  /\ IF ~available
     THEN Commit(St, Ev("other", "none"))
     ELSE LET s1 == [St EXCEPT !.initialized = TRUE]
              s2 == IF s1.settings.device # Null /\ s1.settings.auto
                    THEN BTtryConnect(s1, "init", s1.settings.device, FALSE)
                    ELSE s1
          IN Commit(s2, Ev("other", "none"))

\* connect(address, channel) up to its first real suspension point
BTConnect(d) ==
  /\ kind = "bt"
  /\ Len(attempts) < MaxAttempts
  /\ LET s1 == clearReconnectTimer(St)
         s2 == IF s1.connectedDevice # Null THEN BTdisconnect(s1) ELSE s1
         ov == OtherManual(s2, 0)
     IN IF ~s2.initialized
        THEN Commit(s2, Ev("connectFailed", "manual"))
        ELSE Commit(BTtryConnect([s2 EXCEPT !.attempts = IF ov THEN MarkOverlap(@) ELSE @],
                                 "manual", d, ov),
                    Ev("connect", "manual"))

\* findChannel resolves: tryConnect goes on to btSerial.connect
BTFindChannelOk(i) ==
  /\ kind = "bt" /\ i \in 1..Len(attempts) /\ attempts[i].pc = "findChannel"
  /\ Commit([St EXCEPT !.attempts[i].pc = "connecting"],
            Ev("other", "none"))

\* findChannel rejects, or the connect error callback runs: the attempt rejects
BTAttemptFails(i) ==
  /\ kind = "bt" /\ i \in 1..Len(attempts)
  /\ LET a == attempts[i]
         s1 == Failed(St, i)
     IN Commit(AfterReject(s1, a.origin),
               SettleEv(St, i, "connectFailed"))

\* the connect success callback, then the continuation of the caller
BTConnectOk(i) ==
  /\ kind = "bt" /\ i \in 1..Len(attempts) /\ attempts[i].pc = "connecting"
  /\ \E h \in 1..MaxHandles :
       /\ h \notin open \cup events
       /\ \A g \in 1..(h - 1) : g \in open \cup events
       /\ LET a == attempts[i]
              s1 == [Settled(St, i) EXCEPT
                               !.open = @ \cup {h},
                               !.btConnection = h,
                               !.connectedDevice = a.dev,
                               !.clientId = BTClientId(a.dev),
                               !.buffer = <<>>,
                               !.dataListeners = Min(@ + 1, MaxListeners),
                               !.closeListeners[Null] = Min(@ + 1, MaxListeners)]
              s2 == IF a.origin = "manual"
                    THEN [s1 EXCEPT !.settings = [device |-> a.dev, auto |-> TRUE]]
                    ELSE s1
          IN Commit(s2, SettleEv(St, i, "connected"))

\* mutant: a timeout callback without the guard
BTonReconnectTimerUnguarded(s, t) == BTtryConnect(s, "timer", t.dev, FALSE)

\* the callback scheduleReconnect gives to setTimeout, for the saved device
\* of timer t: it returns at once during shutdown and when connected
BTonReconnectTimer(s, t) ==
  IF s.isShuttingDown \/ s.connectedDevice # Null THEN s
  ELSE BTtryConnect(s, "timer", t.dev, FALSE)

\* the reconnect timeout callback
BTReconnectTimerFires(t) ==
  /\ kind = "bt" /\ t \in timers
  /\ LET s1 == [St EXCEPT !.timers = @ \ {t}]
         skip == s1.isShuttingDown \/ s1.connectedDevice # Null
     IN /\ skip \/ Len(attempts) < MaxAttempts
        /\ Commit(BTonReconnectTimer(s1, t),
                  Ev(IF skip THEN "timerSkipped" ELSE "timerFired", "timer"))

\* the device or the radio closes link h: the library drops it and emits
\* 'closed' (and, when twice, 'failure' as well, delivered later)
BTRemoteClose(h, twice) ==
  /\ kind = "bt" /\ h \in open
  /\ LET s1 == [St EXCEPT !.open = @ \ {h},
                          !.btConnection = IF @ = h THEN Null ELSE @,
                          !.events = IF twice THEN @ \cup {h} ELSE @]
     IN Commit(BTcloseToAll(s1, s1.closeListeners[Null]),
               CloseEv(St, btConnection # Null /\ btConnection # h))

\* a queued 'closed'/'failure' event of link h reaches the listeners
BTDeliverClosed(h) ==
  /\ kind = "bt" /\ h \in events
  /\ LET s1 == [St EXCEPT !.events = @ \ {h}]
     IN Commit(BTcloseToAll(s1, s1.closeListeners[Null]),
               CloseEv(St, btConnection # Null))

\* disconnect() called by the host; the record tells whether it found an open
\* link to close ("open")
BTDisconnectCall ==
  /\ kind = "bt"
  /\ Commit(BTdisconnect(St),
            Ev("disconnect", IF btConnection # Null THEN "open" ELSE "none"))

BTShutdownCall ==
  /\ kind = "bt"
  /\ Commit(BTshutdown(St), Ev("other", "none"))

\* bytes arrive on the open link: every 'data' listener runs handleData
BTData(chunk) ==
  /\ kind = "bt" /\ btConnection # Null
  /\ LET s1 == dataToAll(St, chunk, dataListeners)
     IN /\ Len(s1.buffer) <= MaxBuf
        /\ Commit(s1, DataEv(St, chunk))


\* ---------------------------------------------------------------- BLE
\* peripheral.disconnect(): an open link closes and its 'disconnect' event follows
periphDisconnect(s, p) ==
  IF p \in s.open
  THEN [s EXCEPT !.open = @ \ {p}, !.events = @ \cup {p}]
  ELSE s

\* mutant: the session fields are cleared, the line buffer is kept
BLEclearSessionKeepsBuffer(s) ==
  [s EXCEPT !.connectedPeripheral = Null, !.rxCharacteristic = FALSE,
            !.txCharacteristic = FALSE, !.connectedDevice = Null,
            !.clientId = Null]

BLEclearSession(s) ==
  [s EXCEPT !.connectedPeripheral = Null, !.rxCharacteristic = FALSE,
            !.txCharacteristic = FALSE, !.connectedDevice = Null,
            !.clientId = Null, !.buffer = <<>>]

BLEdisconnect(s) ==
  LET c == clearReconnectTimer(s)
      d == IF c.connectedPeripheral # Null
           THEN periphDisconnect(c, c.connectedPeripheral)
           ELSE c
  IN BLEclearSession(d)

\* noble.startScanning(filter), noble.stopScanning()
startScanning(s, filter) == [s EXCEPT !.scan.radio = filter]
stopScanning(s) == [s EXCEPT !.scan.radio = "off"]

BLEshutdown(s) ==
  LET d == [s EXCEPT !.isShuttingDown = TRUE]
  IN BLEdisconnect(IF d.scan.isScanning /\ d.initialized THEN stopScanning(d) ELSE d)

\* mutant: handleDisconnect that clears the session and schedules nothing
BLEhandleDisconnectNoSchedule(s) == BLEclearSession(s)

BLEhandleDisconnect(s) ==
  LET c == BLEclearSession(s)
  IN IF ~c.isShuttingDown THEN scheduleReconnect(c) ELSE c

\* the peripheral 'disconnect' listener registered by connectToPeripheral
BLEonDisconnect(s) == IF ~s.isShuttingDown THEN BLEhandleDisconnect(s) ELSE s

RECURSIVE BLEdisconnectToAll(_, _)
BLEdisconnectToAll(s, n) ==
  IF n = 0 THEN s
  ELSE The({BLEdisconnectToAll(x, n - 1) : x \in {BLEonDisconnect(s)}})

\* connect(deviceId) after the noble check, up to the await of
\* findPeripheral, which has started the adapter's scan without a filter
BLEconnect(s, origin, d, ov) ==
  LET c == clearReconnectTimer(s)
      e == IF c.connectedPeripheral # Null THEN BLEdisconnect(c) ELSE c
  IN startScanning([e EXCEPT !.attempts = Append(@, [origin |-> origin, dev |-> d,
                                                      pc |-> "scan", timedOut |-> FALSE,
                                                      ov |-> ov])],
                   "all")

\* the promise of attempt a rejects, unless its connect timeout rejected it before
BLEreject(s, a) == IF a.timedOut THEN s ELSE AfterReject(s, a.origin)

\* ---- scanDevices
\* scanDevices(duration) up to the promise it returns: it throws when the
\* module is missing, the adapter is not powered on or a scan is flagged,
\* otherwise it flags the scan, arms the timeout and starts the adapter's scan
\* with the service filter
BLEscanDevices(s) ==
  IF ~s.initialized \/ s.adapter # "poweredOn" THEN s
  ELSE IF s.scan.isScanning THEN s
  ELSE startScanning([s EXCEPT !.scan.isScanning = TRUE, !.scan.pending = @ + 1], "nus")

\* stopScan, the callback of the scan timeout: the promise resolves
stopScan(s) ==
  stopScanning([s EXCEPT !.scan.isScanning = FALSE, !.scan.pending = @ - 1])

\* the startScanning callback with an error: the timeout is cleared and the
\* promise rejects
scanStartFailed(s) ==
  [s EXCEPT !.scan.isScanning = FALSE, !.scan.pending = @ - 1]

BLEScanDevices ==
  /\ kind = "ble"
  /\ Commit(BLEscanDevices(St),
            Ev(IF ~initialized \/ adapter # "poweredOn" THEN "scanNotReady"
               ELSE IF scan.isScanning THEN "scanRejected"
               ELSE "scanStarted", "none"))

\* the timeout of a pending scanDevices fires
BLEScanStop ==
  /\ kind = "ble" /\ scan.pending > 0
  /\ Commit(stopScan(St), Ev("scanResolved", "none"))

\* the adapter reports that the scan of a pending scanDevices did not start
BLEScanStartFails ==
  /\ kind = "ble" /\ scan.pending > 0
  /\ Commit(scanStartFailed(St), Ev("scanStartFailed", "none"))

BLEInitialize(available) ==
  /\ kind = "ble" /\ ~initialized
  /\ Commit([St EXCEPT !.initialized = available], Ev("other", "none"))

\* the noble 'stateChange' listener registered by initialize()
BLEStateChange(state) ==
  /\ kind = "ble" /\ initialized /\ adapter # state
  /\ LET s1 == [St EXCEPT !.adapter = state]
     IN Commit(IF state = "poweredOn" /\ s1.settings.device # Null /\ s1.settings.auto
               THEN scheduleReconnect(s1)
               ELSE s1,
               Ev("other", "none"))

BLEConnect(d) ==
  /\ kind = "ble"
  /\ Len(attempts) < MaxAttempts
  /\ IF ~initialized
     THEN Commit(St, Ev("connectFailed", "manual"))
     ELSE LET ov == OtherManual(St, 0)
          IN Commit(BLEconnect([St EXCEPT !.attempts = IF ov THEN MarkOverlap(@) ELSE @],
                               "manual", d, ov),
                    Ev("connect", "manual"))

\* findPeripheral's discover listener sees the peripheral: cleanup() stops the
\* adapter's scan, connectToPeripheral arms the connect timeout and calls
\* peripheral.connect
BLEScanFound(i) ==
  /\ kind = "ble" /\ i \in 1..Len(attempts) /\ attempts[i].pc = "scan"
  /\ Commit(stopScanning([St EXCEPT !.attempts[i].pc = "linking"]),
            Ev("other", "none"))

\* findPeripheral's timeout: cleanup() stops the adapter's scan, the promise
\* resolves null and connect() throws
BLEScanTimeout(i) ==
  /\ kind = "ble" /\ i \in 1..Len(attempts) /\ attempts[i].pc = "scan"
  /\ LET a == attempts[i]
         s1 == stopScanning(Failed(St, i))
     IN Commit(BLEreject(s1, a),
               SettleEv(St, i, "connectFailed"))

\* the peripheral.connect callback without error: discovery starts
BLELinkOk(i) ==
  /\ kind = "ble" /\ i \in 1..Len(attempts) /\ attempts[i].pc = "linking"
  /\ Commit([St EXCEPT !.attempts[i].pc = "discover",
                       !.open = @ \cup {attempts[i].dev}],
            Ev("other", "none"))

\* the peripheral.connect callback with an error
BLELinkErr(i) ==
  /\ kind = "ble" /\ i \in 1..Len(attempts) /\ attempts[i].pc = "linking"
  /\ LET a == attempts[i]
         s1 == Failed(St, i)
     IN Commit(BLEreject(s1, a),
               SettleEv(St, i, "connectFailed"))

\* the 15 s connect timeout of connectToPeripheral: the promise rejects, the
\* callbacks of the attempt still run when the library calls them
BLEConnectTimeout(i) ==
  /\ kind = "ble" /\ i \in 1..Len(attempts)
  /\ attempts[i].pc \in {"linking", "discover"} /\ ~attempts[i].timedOut
  /\ LET a == attempts[i]
         s1 == [St EXCEPT !.attempts[i].timedOut = TRUE,
                          !.failures = Min(@ + 1, MaxFailures)]
     IN Commit(AfterReject(s1, a.origin),
               SettleEv(St, i, "connectFailed"))

\* discoverCharacteristics resolves; rx, tx: the characteristic is among the found
\* (the runs take both found or both missing)
BLEDiscoverOk(i, rx, tx) ==
  /\ kind = "ble" /\ i \in 1..Len(attempts) /\ attempts[i].pc = "discover"
  /\ LET a == attempts[i]
         s1 == [Settled(St, i) EXCEPT !.rxCharacteristic = rx, !.txCharacteristic = tx]
     IN IF ~rx \/ ~tx
        THEN Commit(BLEreject(periphDisconnect(
                                [s1 EXCEPT !.failures = Min(@ + 1, MaxFailures)],
                                a.dev), a),
                    SettleEv(St, i, "connectFailed"))
        ELSE LET s2 == [s1 EXCEPT !.dataListeners = 1,
                                  !.closeListeners[a.dev] = Min(@ + 1, MaxListeners),
                                  !.connectedPeripheral = a.dev]
                 s3 == IF a.timedOut
                       THEN s2
                       ELSE [s2 EXCEPT !.connectedDevice = a.dev,
                                       !.clientId = BLEClientId(a.dev),
                                       !.settings = [device |-> a.dev, auto |-> TRUE]]
             IN Commit(s3, SettleEv(St, i, "connected"))

\* discoverCharacteristics rejects: the catch block of the connect callback
BLEDiscoverErr(i) ==
  /\ kind = "ble" /\ i \in 1..Len(attempts) /\ attempts[i].pc = "discover"
  /\ LET a == attempts[i]
         s1 == Failed(St, i)
     IN Commit(BLEreject(periphDisconnect(s1, a.dev), a),
               SettleEv(St, i, "connectFailed"))

\* the callback scheduleReconnect gives to setTimeout, for the saved device
\* of timer t: it returns at once during shutdown and when connected
BLEonReconnectTimer(s, t) ==
  IF s.isShuttingDown \/ s.connectedPeripheral # Null THEN s
  ELSE BLEconnect(s, "timer", t.dev, FALSE)

\* the reconnect timeout callback
BLEReconnectTimerFires(t) ==
  /\ kind = "ble" /\ t \in timers
  /\ LET s1 == [St EXCEPT !.timers = @ \ {t}]
         skip == s1.isShuttingDown \/ s1.connectedPeripheral # Null
     IN /\ skip \/ Len(attempts) < MaxAttempts
        /\ Commit(BLEonReconnectTimer(s1, t),
                  Ev(IF skip THEN "timerSkipped" ELSE "timerFired", "timer"))

\* the device or the radio drops the link of peripheral p: 'disconnect' is emitted
BLERemoteClose(p) ==
  /\ kind = "ble" /\ p \in open
  /\ LET s1 == [St EXCEPT !.open = @ \ {p}]
     IN Commit(BLEdisconnectToAll(s1, s1.closeListeners[p]),
               CloseEv(St, connectedPeripheral # p))

\* the queued 'disconnect' event of a link closed by peripheral.disconnect()
BLEDeliverDisconnect(p) ==
  /\ kind = "ble" /\ p \in events
  /\ LET s1 == [St EXCEPT !.events = @ \ {p}]
     IN Commit(BLEdisconnectToAll(s1, s1.closeListeners[p]),
               CloseEv(St, connectedPeripheral \in open))

BLEDisconnectCall ==
  /\ kind = "ble"
  /\ Commit(BLEdisconnect(St),
            Ev("disconnect", IF connectedPeripheral # Null /\ connectedPeripheral \in open
                             THEN "open" ELSE "none"))

BLEShutdownCall ==
  /\ kind = "ble"
  /\ Commit(BLEshutdown(St), Ev("other", "none"))

\* a notification arrives on the subscribed tx characteristic
BLEData(chunk) ==
  /\ kind = "ble" /\ txCharacteristic
  /\ connectedPeripheral # Null /\ connectedPeripheral \in open
  /\ LET s1 == dataToAll(St, chunk, dataListeners)
     IN /\ Len(s1.buffer) <= MaxBuf
        /\ Commit(s1, DataEv(St, chunk))

\* the host changes the saved settings (ctx.setSettings by another party): it
\* forgets the saved device or switches auto-connect
HostSetSettings(forget) ==
  /\ forget => settings.device # Null
  /\ Commit([St EXCEPT !.settings = IF forget THEN [@ EXCEPT !.device = Null]
                                     ELSE [@ EXCEPT !.auto = ~@]],
            Ev("other", "none"))

\* ---------------------------------------------------------------- flashUSB
\* The characters of the esptool output: "W" stands for the text
\* 'Writing at 0x', "." for '...'; "f", "4", "2" are hexadecimal digits, "4" and
\* "2" decimal ones.
HexDigits == DOMAIN DigitValue \cup {"f"}

Event(type, text, num, label) ==
  [type |-> type, text |-> text, num |-> num, label |-> label]

\* str.split('\n')
RECURSIVE split(_)
split(str) ==
  LET idx == indexOfNewline(str)
  IN IF idx = 0 THEN <<str>>
     ELSE <<SubSeq(str, 1, idx - 1)>> \o split(SubSeq(str, idx + 1, Len(str)))

\* the character at position k, "" past the end
At(str, k) == IF k \in 1..Len(str) THEN str[k] ELSE ""

\* the last position of the longest run of characters of S that starts at i
\* (i - 1 when the run is empty)
RunEnd(str, i, S) ==
  IF i > Len(str) THEN i - 1
  ELSE CHOOSE m \in (i - 1)..Len(str) :
         /\ \A k \in i..m : str[k] \in S
         /\ m = Len(str) \/ str[m + 1] \notin S

\* /Writing at 0x[\da-fA-F]+\.\.\.\s*\((\d+)\s*%\)/ tried at position i: the
\* captured digits, <<>> when it does not match there
matchAt(str, i) ==
  LET h == RunEnd(str, i + 1, HexDigits)
      s1 == RunEnd(str, h + 2, {" "})
      d == RunEnd(str, s1 + 2, DOMAIN DigitValue)
      s2 == RunEnd(str, d + 1, {" "})
  IN IF /\ At(str, i) = "W" /\ h >= i + 1 /\ At(str, h + 1) = "."
        /\ At(str, s1 + 1) = "(" /\ d >= s1 + 2
        /\ At(str, s2 + 1) = "%" /\ At(str, s2 + 2) = ")"
     THEN SubSeq(str, s1 + 2, d)
     ELSE <<>>

\* trimmed.match(...): the capture of the leftmost match, <<>> when none
progressMatch(str) ==
  IF \E i \in 1..Len(str) : matchAt(str, i) # <<>>
  THEN matchAt(str, CHOOSE i \in 1..Len(str) :
                      /\ matchAt(str, i) # <<>>
                      /\ \A j \in 1..(i - 1) : matchAt(str, j) = <<>>)
  ELSE <<>>

\* the substrings the stdout handler looks for.  The capital letter C of the
\* tool's output is written "c": "C" names the continuation byte above
Connecting == <<"c", "o", "n", "n", "e", "c", "t", "i", "n", "g">>
ChipIs == <<"c", "h", "i", "p", " ", "i", "s">>
ErasingFlash == <<"E", "r", "a", "s", "i", "n", "g", " ", "f", "l", "a", "s", "h">>
HashVerified ==
  <<"H", "a", "s", "h", " ", "o", "f", " ", "d", "a", "t", "a">>
    \o <<" ", "v", "e", "r", "i", "f", "i", "e", "d">>
HardResetting == <<"H", "a", "r", "d", " ", "r", "e", "s", "e", "t", "t", "i", "n", "g">>

\* String.prototype.includes
includes(str, sub) ==
  \E i \in 1..(Len(str) - Len(sub) + 1) : SubSeq(str, i, i + Len(sub) - 1) = sub

\* the body of the for loop of the stdout handler, for one line
stdoutLine(line) ==
  LET trimmed == trim(line)
      m == progressMatch(trimmed)
  IN IF trimmed = <<>> THEN <<>>
     ELSE <<Event("message", trimmed, 0, "")>>
            \o (IF m # <<>>
                THEN <<Event("progress", <<>>, parseInt(m), "Writing firmware...")>>
                ELSE <<>>)
            \o (IF includes(trimmed, Connecting)
                THEN <<Event("progress", <<>>, 0, "Connecting to ESP32...")>> ELSE <<>>)
            \o (IF includes(trimmed, ChipIs)
                THEN <<Event("message", trimmed, 0, "")>> ELSE <<>>)
            \o (IF includes(trimmed, ErasingFlash)
                THEN <<Event("progress", <<>>, 0, "Erasing flash...")>> ELSE <<>>)
            \o (IF includes(trimmed, HashVerified)
                THEN <<Event("progress", <<>>, 100, "Verifying...")>> ELSE <<>>)
            \o (IF includes(trimmed, HardResetting)
                THEN <<Event("progress", <<>>, 100, "Resetting device...")>> ELSE <<>>)

\* the body of the for loop of the stderr handler
stderrLine(line) ==
  LET trimmed == trim(line)
  IN IF trimmed = <<>> THEN <<>>
     ELSE <<Event("message", <<"[stderr] ">> \o trimmed, 0, "")>>

RECURSIVE stdoutLines(_)
stdoutLines(lines) ==
  IF lines = <<>> THEN <<>> ELSE stdoutLine(Head(lines)) \o stdoutLines(Tail(lines))

RECURSIVE stderrLines(_)
stderrLines(lines) ==
  IF lines = <<>> THEN <<>> ELSE stderrLine(Head(lines)) \o stderrLines(Tail(lines))

\* lines.pop() || '' and the lines left
popped(lines) == lines[Len(lines)]
front(lines) == SubSeq(lines, 1, Len(lines) - 1)

\* mutant: a stdout handler that splits each chunk on its own
stdoutDataNoBuffer(buf, chunk) ==
  LET lines == split(toString(chunk))
  IN [buffer |-> popped(lines), events |-> stdoutLines(front(lines))]

\* proc.stdout.on('data'): the new stdoutBuffer and the events emitted
stdoutData(buf, chunk) ==
  LET lines == split(buf \o toString(chunk))
  IN [buffer |-> popped(lines), events |-> stdoutLines(front(lines))]

\* proc.stderr.on('data')
stderrData(buf, chunk) ==
  LET lines == split(buf \o toString(chunk))
  IN [buffer |-> popped(lines), events |-> stderrLines(front(lines))]

\* the exit codes esptool ends with, and the code 'close' carries after a
\* failed spawn (the negated errno)
ExitCodes == {0, 2}
SpawnErrno == 0 - 2

\* mutant: a close handler that reports success whatever the code
closeEventsAlwaysComplete(out, err, code) == <<Event("complete", <<>>, 0, "")>>

\* mutant: a close handler that drops what is still buffered
closeEventsNoFlush(out, err, code) ==
  IF code = 0
  THEN <<Event("complete", <<>>, 0, "")>>
  ELSE <<Event("error", <<"exited">>, code, "")>>

\* proc.on('close'): the buffered remainders, then the terminal event
closeEvents(out, err, code) ==
  (IF trim(out) # <<>> THEN <<Event("message", trim(out), 0, "")>> ELSE <<>>)
    \o (IF trim(err) # <<>>
        THEN <<Event("message", <<"[stderr] ">> \o trim(err), 0, "")>> ELSE <<>>)
    \o (IF code = 0
        THEN <<Event("complete", <<>>, 0, "")>>
        ELSE <<Event("error", <<"exited">>, code, "")>>)

\* ---- actions
\* mutant: the command line is announced before the tool is made executable
USBChmodFailsAfterMessage ==
  /\ usbPc = "chmod"
  /\ usbPc' = "done"
  /\ emitted' = emitted \o <<Event("message", <<"Running">>, 0, ""),
                              Event("error", <<"chmod">>, 0, "")>>
  /\ UNCHANGED <<mgrVars, sent, handler, wire, fed, fedErr, delivered, stdoutBuffer, stderrBuffer,
                 closedWith, ota>>

\* fs.chmod rejects: the catch emits 'error' and returns
USBChmodFails ==
  /\ usbPc = "chmod"
  /\ usbPc' = "done"
  /\ emitted' = Append(emitted, Event("error", <<"chmod">>, 0, ""))
  /\ UNCHANGED <<mgrVars, sent, handler, wire, fed, fedErr, delivered, stdoutBuffer, stderrBuffer,
                 closedWith, ota>>

\* fs.chmod resolves: 'message' with the command line, spawn, the four
\* handlers are registered
USBSpawn ==
  /\ usbPc = "chmod"
  /\ usbPc' = "running"
  /\ emitted' = Append(emitted, Event("message", <<"Running">>, 0, ""))
  /\ UNCHANGED <<mgrVars, sent, handler, wire, fed, fedErr, delivered, stdoutBuffer, stderrBuffer,
                 closedWith, ota>>

\* the next k bytes of the output arrive as one chunk on stdout
USBStdoutData(k) ==
  /\ usbPc = "running" /\ handler \in {"stdout", "usb"} /\ k \in 1..Len(wire)
  /\ LET chunk == SubSeq(wire, 1, k)
         r == stdoutData(stdoutBuffer, chunk)
     IN /\ stdoutBuffer' = r.buffer
        /\ emitted' = emitted \o r.events
        /\ fed' = fed \o chunk
        /\ wire' = SubSeq(wire, k + 1, Len(wire))
  /\ UNCHANGED <<mgrVars, sent, handler, fedErr, delivered, stderrBuffer, usbPc,
                 closedWith, ota>>

\* the same on stderr
USBStderrData(k) ==
  /\ usbPc = "running" /\ handler \in {"stderr", "usb"} /\ k \in 1..Len(wire)
  /\ LET chunk == SubSeq(wire, 1, k)
         r == stderrData(stderrBuffer, chunk)
     IN /\ stderrBuffer' = r.buffer
        /\ emitted' = emitted \o r.events
        /\ fedErr' = fedErr \o chunk
        /\ wire' = SubSeq(wire, k + 1, Len(wire))
  /\ UNCHANGED <<mgrVars, sent, handler, fed, delivered, stdoutBuffer, usbPc, closedWith,
                 ota>>

\* proc.on('error'): the spawn failed (no output has arrived)
USBProcError ==
  /\ usbPc = "running" /\ fed = <<>> /\ fedErr = <<>>
  /\ usbPc' = "failed"
  /\ emitted' = Append(emitted, Event("error", <<"start">>, 0, ""))
  /\ UNCHANGED <<mgrVars, sent, handler, wire, fed, fedErr, delivered, stdoutBuffer, stderrBuffer,
                 closedWith, ota>>

\* proc.on('close'): after a run with an exit code of esptool, after a failed
\* spawn with the negated errno
USBClose(code) ==
  /\ \/ usbPc = "running" /\ code \in ExitCodes
     \/ usbPc = "failed" /\ code = SpawnErrno
  /\ usbPc' = "closed"
  /\ closedWith' = {code}
  /\ emitted' = emitted \o closeEvents(stdoutBuffer, stderrBuffer, code)
  /\ UNCHANGED <<mgrVars, sent, handler, wire, fed, fedErr, delivered, stdoutBuffer, stderrBuffer, ota>>

\* ---------------------------------------------------------------- inbound transport data
\* the next k bytes of the stream arrive as one 'data' event of the session
TransportData(k) ==
  /\ handler = kind /\ Connected(St) /\ k \in 1..Len(wire)
  /\ LET chunk == SubSeq(wire, 1, k)
     IN /\ buffer' = dataToAll(St, chunk, dataListeners).buffer
        /\ delivered' = delivered \o deliveriesOfAll(St, chunk, dataListeners)
        /\ fed' = fed \o chunk
        /\ wire' = SubSeq(wire, k + 1, Len(wire))
  /\ ev' = Ev("data", "none")
  /\ UNCHANGED <<kind, initialized, isShuttingDown, connectedDevice, clientId,
                 reconnectTimer, connectedPeripheral, rxCharacteristic, txCharacteristic,
                 btConnection, timers, attempts, settings, open, events, dataListeners,
                 closeListeners, adapter, failures, scan>>
  /\ UNCHANGED <<sent, handler, fedErr, stdoutBuffer, stderrBuffer, usbPc, closedWith,
                 flashVars>>

\* ---------------------------------------------------------------- BLE sendToDevice
\* const chunkSize = 20 of BLEManager.sendToDevice
BLEchunkSize == 20

\* JSON.stringify of a message.  A message is modelled by a string value over
\* the characters "x", "e" (two bytes in UTF-8), the quotation mark and the
\* newline: its JSON text is the string in quotation marks, with the
\* quotation mark and the newline escaped
RECURSIVE escaped(_)
escaped(str) ==
  IF str = <<>> THEN <<>>
  ELSE (IF str[1] = "\"" THEN <<"\\", "\"">>
        ELSE IF str[1] = "\n" THEN <<"\\", "n">>
        ELSE <<str[1]>>) \o escaped(Tail(str))

stringify(message) == <<"\"">> \o escaped(message) \o <<"\"">>

\* Buffer.from(data, 'utf8'): "e" becomes its two bytes, the other characters
\* one byte each
RECURSIVE BufferFrom(_)
BufferFrom(data) ==
  IF data = <<>> THEN <<>>
  ELSE (IF data[1] = "e" THEN <<"L", "C">> ELSE <<data[1]>>) \o BufferFrom(Tail(data))

\* buffer.slice(start, end)
slice(buf, start, end) == SubSeq(buf, start + 1, Min(end, Len(buf)))

\* mutant: a loop that advances by one byte less than it writes
RECURSIVE writeChunksOverlapping(_, _)
writeChunksOverlapping(buf, i) ==
  IF i < Len(buf)
  THEN <<slice(buf, i, Min(i + BLEchunkSize, Len(buf)))>>
         \o writeChunksOverlapping(buf, i + BLEchunkSize - 1)
  ELSE <<>>

\* the for loop of sendToDevice from index i on: the chunks it hands to
\* rxCharacteristic.write, in the order of the calls
RECURSIVE writeChunks(_, _)
writeChunks(buf, i) ==
  IF i < Len(buf)
  THEN <<slice(buf, i, Min(i + BLEchunkSize, Len(buf)))>>
         \o writeChunks(buf, i + BLEchunkSize)
  ELSE <<>>

\* sendToDevice(message): the writes it makes
BLEsendToDevice(s, message) ==
  IF ~s.rxCharacteristic \/ s.connectedPeripheral = Null THEN <<>>
  ELSE writeChunks(BufferFrom(stringify(message) \o <<"\n">>), 0)

\* n times the character c
RECURSIVE Rep(_, _)
Rep(c, n) == IF n = 0 THEN <<>> ELSE <<c>> \o Rep(c, n - 1)

\* messages whose data has 3 bytes, one chunk exactly, one byte more, two
\* chunks exactly, a two-byte character across the end of the first chunk,
\* and characters that JSON escapes
Messages ==
  {<<>>, Rep("x", BLEchunkSize - 3), Rep("x", BLEchunkSize - 2),
   Rep("x", 2 * BLEchunkSize - 3), Rep("x", BLEchunkSize - 2) \o <<"e">>,
   <<"\"", "\n", "e">>}

\* mutant: a write callback that writes the chunk again after an error
onWriteDoneRetries(call, err) ==
  IF err THEN [call EXCEPT !.logged = @ + 1, !.failing = 0,
                           !.writes = Append(@, call.writes[call.failing])]
  ELSE [call EXCEPT !.failing = 0]

\* the callback given to rxCharacteristic.write, run for the chunk of the
\* call whose write fails: an error is logged, nothing else
onWriteDone(call, err) ==
  IF err THEN [call EXCEPT !.logged = @ + 1, !.failing = 0]
  ELSE [call EXCEPT !.failing = 0]

\* the host broadcasts a message: onBroadcast calls sendToDevice; the write
\* of chunk K will fail (0: none will)
BLESendToDevice(message, K) ==
  /\ kind = "ble" /\ Len(sent) < MaxSent
  /\ K \in 0..Len(BLEsendToDevice(St, message))
  /\ sent' = Append(sent, [message |-> message, connected |-> Connected(St),
                           writes |-> BLEsendToDevice(St, message),
                           failing |-> K, failed |-> K, logged |-> 0])
  /\ ev' = Ev("send", "none")
  /\ UNCHANGED <<kind, initialized, isShuttingDown, connectedDevice, clientId, buffer,
                 reconnectTimer, connectedPeripheral, rxCharacteristic, txCharacteristic,
                 btConnection, timers, attempts, settings, open, events, dataListeners,
                 closeListeners, adapter, failures, scan>>
  /\ UNCHANGED <<handler, wire, fed, fedErr, delivered, stdoutBuffer, stderrBuffer, usbPc,
                 closedWith, flashVars>>

\* the library reports the failed write of a chunk of call i to its callback
BLEWriteFails(i) ==
  /\ kind = "ble" /\ i \in 1..Len(sent) /\ sent[i].failing > 0
  /\ sent' = [sent EXCEPT ![i] = onWriteDone(@, TRUE)]
  /\ ev' = Ev("writeFailed", "none")
  /\ UNCHANGED <<kind, initialized, isShuttingDown, connectedDevice, clientId, buffer,
                 reconnectTimer, connectedPeripheral, rxCharacteristic, txCharacteristic,
                 btConnection, timers, attempts, settings, open, events, dataListeners,
                 closeListeners, adapter, failures, scan>>
  /\ UNCHANGED <<handler, wire, fed, fedErr, delivered, stdoutBuffer, stderrBuffer, usbPc,
                 closedWith, flashVars>>

\* no stream, no flash invocation
IdleIO ==
  /\ handler = "none"
  /\ wire = <<>>
  /\ fed = <<>>
  /\ fedErr = <<>>
  /\ delivered = <<>>
  /\ stdoutBuffer = <<>>
  /\ stderrBuffer = <<>>
  /\ usbPc = "none"
  /\ closedWith = {}
  /\ sent = <<>>

\* ---------------------------------------------------------------- flashOTA
chunkSize == 16384
\* footer: '\r\n--' + boundary + '--\r\n', the boundary being 24 dashes and the
\* 11 hexadecimal digits of Date.now()
FooterLen == 43
\* header: its fixed text has 143 bytes, the file name 1 to 255
HeaderLens == {144, 398}
\* an empty image, one byte, images whose body ends on a chunk boundary and one
\* byte past it, one of two chunks, the largest
FileSizes == {0, 1, chunkSize - 144 - FooterLen, chunkSize - 144 - FooterLen + 1,
              20000, MaxFileSize}
StatusCodes == {200, 500}
ErrorCodes == {"ECONNRESET", "EPIPE", "ECONNREFUSED"}
\* writes after which req.write may report backpressure (more than the chunks
\* of the largest body: never)
WriteCounts == 1..(MaxFileSize \div chunkSize + 2)
\* the NaN of 0 / 0
NaN == 0 - 1

\* the locals of one invocation; last: the handler that ran last, with the
\* code it was given and the state it found (history); writes: the chunks
\* handed to req.write as [from, to) ranges of body, each with what the call
\* returned and the run of writeNext that made it; runs and endCalls count the
\* calls of writeNext and of req.end (history)
OTARecord(pc) ==
  [pc |-> pc, fileSize |-> 0, headerLen |-> 0, bodyLen |-> 0, offset |-> 0,
   completed |-> FALSE, ended |-> FALSE, destroyed |-> FALSE, responded |-> FALSE,
   errors |-> 0, handled |-> FALSE,
   last |-> [op |-> "none", code |-> "", afterEnd |-> FALSE, wasCompleted |-> FALSE,
             unsent |-> 0],
   writes |-> <<>>, runs |-> 0, endCalls |-> 0]

NoOTA == OTARecord("none")

\* the invocation and its emitter as one record
Flash == [ota |-> ota, emitted |-> emitted]

emit(f, e) == [f EXCEPT !.emitted = Append(@, e)]

Max(a, b) == IF a > b THEN a ELSE b

\* mutant: the percentage without the cap at 100
percentNoCap(offset, headerLen, fileSize) ==
  LET bytesSent == Max(0, offset - headerLen)
  IN IF fileSize = 0 THEN (IF bytesSent = 0 THEN NaN ELSE 100)
     ELSE (2 * bytesSent * 100 + fileSize) \div (2 * fileSize)

\* Math.min(Math.round((Math.max(0, offset - header.length) / fileSize) * 100), 100)
\* in exact arithmetic: x / 0 is Infinity for x > 0 and NaN for x = 0, and
\* Math.round(x) is the floor of x + 1/2
percent(offset, headerLen, fileSize) ==
  LET bytesSent == Max(0, offset - headerLen)
  IN IF fileSize = 0 THEN (IF bytesSent = 0 THEN NaN ELSE 100)
     ELSE Min((2 * bytesSent * 100 + fileSize) \div (2 * fileSize), 100)

\* req.write(body.subarray(from, to)) returning ok, as the history keeps it
Written(f, from, to, ok) ==
  [f EXCEPT !.ota.writes = Append(@, [from |-> from, to |-> to, ok |-> ok,
                                      run |-> f.ota.runs])]

\* mutant: a loop that writes on after req.write has returned false
RECURSIVE writeNextIgnoresBackpressure(_, _)
writeNextIgnoresBackpressure(f, k) ==
  IF f.ota.offset < f.ota.bodyLen
  THEN LET end == Min(f.ota.offset + chunkSize, f.ota.bodyLen)
           f1 == emit(Written([f EXCEPT !.ota.offset = end], f.ota.offset, end, k # 1),
                      Event("progress", <<>>,
                            percent(end, f.ota.headerLen, f.ota.fileSize),
                            "Uploading firmware..."))
       IN writeNextIgnoresBackpressure(f1, k - 1)
  ELSE [f EXCEPT !.ota.pc = "sent", !.ota.ended = TRUE, !.ota.endCalls = @ + 1]

\* mutant: a loop whose chunks always have chunkSize bytes
RECURSIVE writeNextWholeChunks(_, _)
writeNextWholeChunks(f, k) ==
  IF f.ota.offset < f.ota.bodyLen
  THEN LET end == f.ota.offset + chunkSize
           f1 == emit(Written([f EXCEPT !.ota.offset = end], f.ota.offset, end, k # 1),
                      Event("progress", <<>>,
                            percent(end, f.ota.headerLen, f.ota.fileSize),
                            "Uploading firmware..."))
       IN IF k = 1 THEN [f1 EXCEPT !.ota.pc = "waitDrain"]
          ELSE writeNextWholeChunks(f1, k - 1)
  ELSE [f EXCEPT !.ota.pc = "sent", !.ota.ended = TRUE, !.ota.endCalls = @ + 1]

\* writeNext(): the loop writes chunks until the body is out, then req.end();
\* the k-th req.write of this run returns false and the loop waits for 'drain'
RECURSIVE writeNext(_, _)
writeNext(f, k) ==
  IF f.ota.offset < f.ota.bodyLen
  THEN LET end == Min(f.ota.offset + chunkSize, f.ota.bodyLen)
           f1 == emit(Written([f EXCEPT !.ota.offset = end], f.ota.offset, end, k # 1),
                      Event("progress", <<>>,
                            percent(end, f.ota.headerLen, f.ota.fileSize),
                            "Uploading firmware..."))
       IN IF k = 1 THEN [f1 EXCEPT !.ota.pc = "waitDrain"]
          ELSE writeNext(f1, k - 1)
  ELSE [f EXCEPT !.ota.pc = "sent", !.ota.ended = TRUE, !.ota.endCalls = @ + 1]

\* a call of writeNext: the first, or the one a 'drain' event makes
runWriteNext(f, k) == writeNext([f EXCEPT !.ota.runs = @ + 1], k)

\* the history of a handler run
Handled(f, op, code) ==
  [f EXCEPT !.ota.handled = TRUE,
            !.ota.last = [op |-> op, code |-> code, afterEnd |-> f.ota.ended,
                          wasCompleted |-> f.ota.completed,
                          unsent |-> f.ota.bodyLen - f.ota.offset]]

\* res.on('end')
onResponseEnd(f, status) ==
  IF f.ota.completed THEN f
  ELSE emit([f EXCEPT !.ota.completed = TRUE],
            IF status >= 200 /\ status < 300
            THEN Event("complete", <<"successful">>, 0, "")
            ELSE Event("error", <<"HTTP">>, status, ""))

\* mutant: an 'error' handler that does not look at the completion flag
onReqErrorUnguarded(f, code) ==
  emit([f EXCEPT !.ota.completed = TRUE],
       IF code \in {"EPIPE", "ECONNRESET"}
       THEN Event("complete", <<"sent">>, 0, "")
       ELSE Event("error", <<"connection">>, 0, ""))

\* mutant: an 'error' handler that reports every error as a failure
onReqErrorAlwaysFails(f, code) ==
  IF f.ota.completed THEN f
  ELSE emit([f EXCEPT !.ota.completed = TRUE], Event("error", <<"connection">>, 0, ""))

\* req.on('error')
onReqError(f, code) ==
  IF f.ota.completed THEN f
  ELSE emit([f EXCEPT !.ota.completed = TRUE],
            IF code \in {"EPIPE", "ECONNRESET"}
            THEN Event("complete", <<"sent">>, 0, "")
            ELSE Event("error", <<"connection">>, 0, ""))

\* req.on('timeout'): the 'error' event req.destroy() causes is emitted later
onTimeout(f) ==
  LET d == [f EXCEPT !.ota.destroyed = TRUE]
  IN IF ~d.ota.completed
     THEN emit([d EXCEPT !.ota.completed = TRUE], Event("error", <<"timeout">>, 0, ""))
     ELSE d

OTACommit(f) ==
  /\ ota' = f.ota
  /\ emitted' = f.emitted
  /\ UNCHANGED <<mgrVars, ioVars>>

\* ---- actions
\* fs.readFile rejects
OTAReadFails ==
  /\ ota.pc = "read"
  /\ OTACommit(emit([Flash EXCEPT !.ota.pc = "done"], Event("error", <<"read">>, 0, "")))

\* fs.readFile resolves with size bytes: the first events, the request with
\* its handlers, the first run of writeNext
OTAReadOk(size, hlen, k) ==
  /\ ota.pc = "read"
  /\ LET f1 == [Flash EXCEPT !.ota.fileSize = size, !.ota.headerLen = hlen,
                              !.ota.bodyLen = hlen + size + FooterLen]
         f2 == emit(emit(emit(f1, Event("message", <<"Starting">>, 0, "")),
                         Event("message", <<"Firmware size">>, size, "")),
                    Event("progress", <<>>, 0, "Connecting..."))
     IN OTACommit(runWriteNext(f2, k))

\* 'drain': writeNext runs again
OTADrain(k) ==
  /\ ota.pc = "waitDrain" /\ ~ota.destroyed
  /\ OTACommit(runWriteNext(Flash, k))

\* the response has arrived and ended
OTAResponseEnd(status) ==
  /\ ota.pc \in {"waitDrain", "sent"} /\ ~ota.responded
  /\ OTACommit(onResponseEnd(Handled([Flash EXCEPT !.ota.responded = TRUE],
                                      "end", ""), status))

\* the request emits 'error'
OTAReqError(code) ==
  /\ ota.pc \in {"waitDrain", "sent"} /\ ota.errors < MaxReqErrors
  /\ OTACommit(onReqError(Handled([Flash EXCEPT !.ota.errors = @ + 1],
                                   "error", code), code))

\* the request emits 'timeout'
OTATimeout ==
  /\ ota.pc \in {"waitDrain", "sent"} /\ ~ota.destroyed
  /\ OTACommit(onTimeout(Handled(Flash, "timeout", "")))

IdleFlash == emitted = <<>> /\ ota = NoOTA

Init ==
  /\ IdleIO /\ IdleFlash
  /\ kind \in {"bt", "ble"}
  /\ initialized = FALSE
  /\ isShuttingDown = FALSE
  /\ connectedDevice = Null
  /\ clientId = Null
  /\ buffer = <<>>
  /\ reconnectTimer = Null
  /\ connectedPeripheral = Null
  /\ rxCharacteristic = FALSE
  /\ txCharacteristic = FALSE
  /\ btConnection = Null
  /\ timers = {}
  /\ attempts = <<>>
  /\ settings \in [device : (IF kind = "bt" THEN BTDevices ELSE BLEDevices) \cup {Null},
                   auto : BOOLEAN]
  /\ open = {}
  /\ events = {}
  /\ dataListeners = 0
  /\ closeListeners = [e \in Emitters |-> 0]
  /\ adapter = "unknown"
  /\ failures = MaxFailures
  /\ scan = NoScan
  /\ ev = NoEv

Next ==
  \/ \E b \in BOOLEAN : BTInitialize(b)
  \/ \E d \in BTDevices : BTConnect(d)
  \/ \E i \in 1..MaxAttempts : BTFindChannelOk(i)
  \/ \E i \in 1..MaxAttempts : BTAttemptFails(i)
  \/ \E i \in 1..MaxAttempts : BTConnectOk(i)
  \/ \E t \in timers : BTReconnectTimerFires(t)
  \/ \E h \in open, twice \in BOOLEAN : BTRemoteClose(h, twice)
  \/ \E h \in events : BTDeliverClosed(h)
  \/ BTDisconnectCall
  \/ BTShutdownCall
  \/ \E c \in Chunks : BTData(c)
  \/ \E forget \in BOOLEAN : HostSetSettings(forget)
  \/ \E b \in BOOLEAN : BLEInitialize(b)
  \/ \E st \in {"poweredOn", "poweredOff"} : BLEStateChange(st)
  \/ \E d \in BLEDevices : BLEConnect(d)
  \/ \E i \in 1..MaxAttempts : BLEScanFound(i)
  \/ \E i \in 1..MaxAttempts : BLEScanTimeout(i)
  \/ \E i \in 1..MaxAttempts : BLELinkOk(i)
  \/ \E i \in 1..MaxAttempts : BLELinkErr(i)
  \/ \E i \in 1..MaxAttempts : BLEConnectTimeout(i)
  \/ \E i \in 1..MaxAttempts, found \in BOOLEAN : BLEDiscoverOk(i, found, found)
  \/ \E i \in 1..MaxAttempts : BLEDiscoverErr(i)
  \/ \E t \in timers : BLEReconnectTimerFires(t)
  \/ \E p \in open : BLERemoteClose(p)
  \/ \E p \in events : BLEDeliverDisconnect(p)
  \/ BLEDisconnectCall
  \/ BLEShutdownCall
  \/ \E c \in Chunks : BLEData(c)

Spec == Init /\ [][Next]_vars

\* ---------------------------------------------------------------- the retry loop alone
\* A manager connected by connect(d), then left to the environment: no further
\* connect(), disconnect(), shutdown() or settings change, and at most
\* MaxFailures failed connect attempts.
InitRetry ==
  /\ IdleIO /\ IdleFlash
  /\ kind \in {"bt", "ble"}
  /\ initialized = TRUE
  /\ isShuttingDown = FALSE
  /\ connectedDevice \in (IF kind = "bt" THEN BTDevices ELSE BLEDevices)
  /\ clientId = (IF kind = "bt" THEN BTClientId(connectedDevice)
                 ELSE BLEClientId(connectedDevice))
  /\ buffer = <<>>
  /\ reconnectTimer = Null
  /\ connectedPeripheral = (IF kind = "bt" THEN Null ELSE connectedDevice)
  /\ rxCharacteristic = (kind = "ble")
  /\ txCharacteristic = (kind = "ble")
  /\ btConnection = (IF kind = "bt" THEN 1 ELSE Null)
  /\ timers = {}
  /\ attempts = <<>>
  /\ settings = [device |-> connectedDevice, auto |-> TRUE]
  /\ open = {1}
  /\ events = {}
  /\ dataListeners = 1
  /\ closeListeners = [e \in Emitters |->
                         IF e = (IF kind = "bt" THEN Null ELSE connectedDevice)
                         THEN 1 ELSE 0]
  /\ adapter = (IF kind = "bt" THEN "unknown" ELSE "poweredOn")
  /\ failures = 0
  /\ scan = NoScan
  /\ ev = [op |-> "connected", origin |-> "manual", ov |-> FALSE]

MayFail == failures < MaxFailures

NextRetry ==
  \/ \E i \in 1..MaxAttempts : BTFindChannelOk(i)
  \/ \E i \in 1..MaxAttempts : MayFail /\ BTAttemptFails(i)
  \/ \E i \in 1..MaxAttempts : BTConnectOk(i)
  \/ \E t \in timers : BTReconnectTimerFires(t)
  \/ \E h \in open, twice \in BOOLEAN : BTRemoteClose(h, twice)
  \/ \E h \in events : BTDeliverClosed(h)
  \/ \E st \in {"poweredOn", "poweredOff"} : BLEStateChange(st)
  \/ \E i \in 1..MaxAttempts : BLEScanFound(i)
  \/ \E i \in 1..MaxAttempts : MayFail /\ BLEScanTimeout(i)
  \/ \E i \in 1..MaxAttempts : BLELinkOk(i)
  \/ \E i \in 1..MaxAttempts : MayFail /\ BLELinkErr(i)
  \/ \E i \in 1..MaxAttempts : MayFail /\ BLEConnectTimeout(i)
  \/ \E i \in 1..MaxAttempts, found \in BOOLEAN :
       (found \/ MayFail) /\ BLEDiscoverOk(i, found, found)
  \/ \E i \in 1..MaxAttempts : MayFail /\ BLEDiscoverErr(i)
  \/ \E t \in timers : BLEReconnectTimerFires(t)
  \/ \E p \in open : BLERemoteClose(p)
  \/ \E p \in events : BLEDeliverDisconnect(p)

\* the runtime runs a due timer and delivers a queued event; the libraries call
\* back every attempt, and (the hypothesis of the retry claim) with success once
\* the failures are used up
FairRetry ==
  /\ WF_vars(\E t \in timers : BTReconnectTimerFires(t) \/ BLEReconnectTimerFires(t))
  /\ WF_vars(\E h \in events : BTDeliverClosed(h) \/ BLEDeliverDisconnect(h))
  /\ WF_vars(\E i \in 1..MaxAttempts :
               \/ BTFindChannelOk(i) \/ BTConnectOk(i)
               \/ BLEScanFound(i) \/ BLELinkOk(i) \/ BLEDiscoverOk(i, TRUE, TRUE))

SpecRetry == InitRetry /\ [][NextRetry]_vars /\ FairRetry

\* ---------------------------------------------------------------- the inbound streams
\* One stream through one handler: the 'data' listeners of a connected
\* transport session, or stdout or stderr of one flashUSB invocation.  The
\* stream is drawn at the start and arrives split into chunks at any byte.
TransportWires == UNION {[1..n -> TransportBytes] : n \in 0..MaxWire}

USBLines ==
  { <<"W", "f", ".", " ", "(", "4", "2", " ", "%", ")">>,
    <<"W", "4", ".", "(", "2", "%", ")">>,
    <<"W", ".", "(", "4", "%", ")">>,
    <<"x", "W", "f", ".", "(", "4", "%", ")", "x">>,
    <<" ", "x", " ">>,
    <<"L", "C">>,
    ChipIs,
    <<>> }

USBWires ==
  {a \o <<"\n">> \o b \o e : a \in USBLines, b \in USBLines, e \in {<<>>, <<"\n">>}}

\* output of a run whose chunks arrive on either stream (handler "usb")
USBShortWires ==
  {a \o <<"\n">> \o b : a \in {<<"x">>, <<"4">>}, b \in {<<>>, <<" ">>, <<"x">>, <<" ", "4">>}}

InitIO ==
  /\ handler \in {"bt", "ble", "stdout", "stderr", "usb"}
  /\ wire \in (IF handler \in {"bt", "ble"} THEN TransportWires
               ELSE IF handler = "usb" THEN USBShortWires ELSE USBWires)
  /\ fed = <<>>
  /\ fedErr = <<>>
  /\ delivered = <<>>
  /\ stdoutBuffer = <<>>
  /\ stderrBuffer = <<>>
  /\ usbPc = (IF handler \in {"bt", "ble"} THEN "none" ELSE "chmod")
  /\ closedWith = {}
  /\ sent = <<>>
  /\ IdleFlash
  /\ kind = (IF handler = "ble" THEN "ble" ELSE "bt")
  /\ initialized = (handler \in {"bt", "ble"})
  /\ isShuttingDown = FALSE
  /\ connectedDevice = (IF handler \in {"bt", "ble"} THEN 1 ELSE Null)
  /\ clientId = (IF handler = "bt" THEN BTClientId(1)
                 ELSE IF handler = "ble" THEN BLEClientId(1) ELSE Null)
  /\ buffer = <<>>
  /\ reconnectTimer = Null
  /\ connectedPeripheral = (IF handler = "ble" THEN 1 ELSE Null)
  /\ rxCharacteristic = (handler = "ble")
  /\ txCharacteristic = (handler = "ble")
  /\ btConnection = (IF handler = "bt" THEN 1 ELSE Null)
  /\ timers = {}
  /\ attempts = <<>>
  /\ settings = (IF handler \in {"bt", "ble"} THEN [device |-> 1, auto |-> TRUE]
                 ELSE [device |-> Null, auto |-> TRUE])
  /\ open = (IF handler \in {"bt", "ble"} THEN {1} ELSE {})
  /\ events = {}
  \* every successful tryConnect adds a 'data' listener to the one serial port
  \* object; a BLE session has a characteristic object of its own
  /\ dataListeners \in (IF handler = "bt" THEN 1..MaxListeners
                         ELSE IF handler = "ble" THEN {1} ELSE {0})
  /\ closeListeners = [e \in Emitters |->
                         IF handler = "bt" /\ e = Null THEN dataListeners
                         ELSE IF handler = "ble" /\ e = 1 THEN 1 ELSE 0]
  /\ adapter = (IF handler = "ble" THEN "poweredOn" ELSE "unknown")
  /\ failures = MaxFailures
  /\ scan = NoScan
  /\ ev = NoEv

NextIO ==
  \/ \E k \in 1..MaxWire : TransportData(k)
  \/ USBChmodFails
  \/ USBSpawn
  \/ \E k \in 1..Len(wire) : USBStdoutData(k)
  \/ \E k \in 1..Len(wire) : USBStderrData(k)
  \/ USBProcError
  \/ \E code \in ExitCodes \cup {SpawnErrno} : USBClose(code)

SpecIO == InitIO /\ [][NextIO]_vars

\* ---------------------------------------------------------------- one OTA upload
\* the manager as constructed, not initialized
MgrConstructed ==
  /\ kind = "bt"
  /\ initialized = FALSE
  /\ isShuttingDown = FALSE
  /\ connectedDevice = Null
  /\ clientId = Null
  /\ buffer = <<>>
  /\ reconnectTimer = Null
  /\ connectedPeripheral = Null
  /\ rxCharacteristic = FALSE
  /\ txCharacteristic = FALSE
  /\ btConnection = Null
  /\ timers = {}
  /\ attempts = <<>>
  /\ settings = [device |-> Null, auto |-> TRUE]
  /\ open = {}
  /\ events = {}
  /\ dataListeners = 0
  /\ closeListeners = [e \in Emitters |-> 0]
  /\ adapter = "unknown"
  /\ failures = MaxFailures
  /\ scan = NoScan
  /\ ev = NoEv

InitOTA ==
  /\ MgrConstructed
  /\ IdleIO
  /\ emitted = <<>>
  /\ ota = OTARecord("read")

NextOTA ==
  \/ OTAReadFails
  \/ \E size \in FileSizes, hlen \in HeaderLens, k \in WriteCounts : OTAReadOk(size, hlen, k)
  \/ \E k \in WriteCounts : OTADrain(k)
  \/ \E status \in StatusCodes : OTAResponseEnd(status)
  \/ \E code \in ErrorCodes : OTAReqError(code)
  \/ OTATimeout

SpecOTA == InitOTA /\ [][NextOTA]_vars

\* ---- the outbound direction of a BLE manager: it is idle or holds a session
\* with device 1, the host broadcasts messages, disconnect() ends the session
InitSend ==
  /\ IdleIO /\ IdleFlash
  /\ kind = "ble"
  /\ initialized = TRUE
  /\ isShuttingDown = FALSE
  /\ connectedPeripheral \in {Null, 1}
  /\ connectedDevice = connectedPeripheral
  /\ clientId = (IF connectedPeripheral = Null THEN Null ELSE BLEClientId(1))
  /\ buffer = <<>>
  /\ reconnectTimer = Null
  /\ rxCharacteristic = (connectedPeripheral # Null)
  /\ txCharacteristic = (connectedPeripheral # Null)
  /\ btConnection = Null
  /\ timers = {}
  /\ attempts = <<>>
  /\ settings = [device |-> 1, auto |-> TRUE]
  /\ open = (IF connectedPeripheral = Null THEN {} ELSE {1})
  /\ events = {}
  /\ dataListeners = (IF connectedPeripheral = Null THEN 0 ELSE 1)
  /\ closeListeners = [e \in Emitters |->
                         IF connectedPeripheral # Null /\ e = 1 THEN 1 ELSE 0]
  /\ adapter = "poweredOn"
  /\ failures = MaxFailures
  /\ scan = NoScan
  /\ ev = NoEv

NextSend ==
  \/ \E message \in Messages :
       \E K \in 0..Len(BLEsendToDevice(St, message)) : BLESendToDevice(message, K)
  \/ \E i \in 1..MaxSent : BLEWriteFails(i)
  \/ BLEDisconnectCall

SpecSend == InitSend /\ [][NextSend]_vars

\* ---- device scans of a BLE manager: initialized, the adapter powered on, no
\* saved device; the host scans for devices and connects
InitScan ==
  /\ IdleIO /\ IdleFlash
  /\ kind = "ble"
  /\ initialized = TRUE
  /\ isShuttingDown = FALSE
  /\ connectedDevice = Null
  /\ clientId = Null
  /\ buffer = <<>>
  /\ reconnectTimer = Null
  /\ connectedPeripheral = Null
  /\ rxCharacteristic = FALSE
  /\ txCharacteristic = FALSE
  /\ btConnection = Null
  /\ timers = {}
  /\ attempts = <<>>
  /\ settings = [device |-> Null, auto |-> TRUE]
  /\ open = {}
  /\ events = {}
  /\ dataListeners = 0
  /\ closeListeners = [e \in Emitters |-> 0]
  /\ adapter = "poweredOn"
  /\ failures = 0
  /\ scan = NoScan
  /\ ev = NoEv

NextScan ==
  \/ BLEScanDevices
  \/ BLEScanStop
  \/ BLEScanStartFails
  \/ \E d \in BLEDevices : BLEConnect(d)
  \/ \E i \in 1..MaxAttempts : BLEScanFound(i)
  \/ \E i \in 1..MaxAttempts : BLEScanTimeout(i)
  \/ \E i \in 1..MaxAttempts : BLELinkErr(i)
  \/ \E state \in {"poweredOn", "poweredOff"} : BLEStateChange(state)
  \/ BLEShutdownCall

SpecScan == InitScan /\ [][NextScan]_vars

\* ---------------------------------------------------------------- properties
\* the connection handle the manager holds
Handle == IF kind = "bt" THEN btConnection ELSE connectedPeripheral

SettingsAllowReconnect == settings.device # Null /\ settings.auto

\* C1: when connect() was called again before an earlier connect() call had
\* settled, then once both have settled at most one link is open, no link is
\* open that the manager does not hold, and the live connection has exactly one
\* set of data listeners.
C1_OverlappingConnects ==
  (ev.ov /\ ev.op \in {"connected", "connectFailed"}) =>
    /\ Cardinality(open) <= 1
    /\ open \subseteq {Handle}
    /\ Connected(St) => dataListeners = 1

\* C2: at most one link is open at any time; right after a connect() call has
\* started its attempt the previous session is closed and cleared; and a close
\* event of an old link that arrives while a newer session is live leaves that
\* session in place.
C2_OneConnection ==
  /\ Cardinality(open) <= 1
  /\ ev.op = "connect" =>
       Handle = Null /\ connectedDevice = Null /\ clientId = Null /\ buffer = <<>>
  /\ ev.op = "closeEventLate" => Connected(St)

\* C3: at most one reconnect timer is pending in every reachable state.
C3_AtMostOneTimer == Cardinality(timers) <= 1

C3_Witness ==
  /\ Cardinality(timers) = 1
  /\ ev.op = "closeEventIdle"
  /\ attempts # <<>>

\* C4: after a close/failure event has reached a connected manager that is not
\* shutting down, with a saved device and auto-connect enabled, exactly one
\* reconnect timer is pending, however many listeners the event reached.
C4_OneTimerAfterDisconnect ==
  (ev.op \in {"closeEvent", "closeEventLate"} /\ ~isShuttingDown
     /\ SettingsAllowReconnect)
    => Cardinality(timers) = 1

C4_Witness ==
  /\ ev.op = "closeEvent" /\ ~isShuttingDown /\ SettingsAllowReconnect
  /\ \E e \in Emitters : closeListeners[e] >= 2
  /\ Cardinality(timers) = 1

\* C5 as stated: after the connect attempt started by a reconnect timer has
\* failed while the manager is not shutting down, exactly one reconnect timer
\* is pending.
C5_RetryAfterFailure_Original ==
  (ev.op = "connectFailed" /\ ev.origin = "timer" /\ ~isShuttingDown)
    => Cardinality(timers) = 1

\* C5 amended: the same, provided a saved device exists and auto-connect is not
\* disabled when the attempt fails.
C5_RetryAfterFailure ==
  (ev.op = "connectFailed" /\ ev.origin = "timer" /\ ~isShuttingDown
     /\ SettingsAllowReconnect)
    => Cardinality(timers) = 1

C5_Witness ==
  /\ ev.op = "connectFailed" /\ ev.origin = "timer" /\ ~isShuttingDown
  /\ SettingsAllowReconnect
  /\ Cardinality(timers) = 1

\* C6: when the connect attempt started by a reconnect timer succeeds no
\* reconnect timer is pending, and the next step arms one only if it is a
\* close event.
C6_NoTimerAfterReconnect ==
  [][/\ (ev'.op = "connected" /\ ev'.origin = "timer") => timers' = {}
     /\ (ev.op = "connected" /\ ev.origin = "timer" /\ timers = {} /\ timers' # {})
          => ev'.op \in {"closeEvent", "closeEventLate", "closeEventIdle"}]_vars

\* C7: once the manager is shutting down no reconnect timer is armed.
C7_NoTimerAfterShutdown == [][isShuttingDown => timers' \subseteq timers]_vars

\* C8: while the manager is shutting down no link is open and the manager is
\* not connected.
C8_NoConnectionAfterShutdown ==
  isShuttingDown => (open = {} /\ ~Connected(St))

\* C9: a connected manager has no reconnect timer pending.
C9_TimerExcludesConnection == Connected(St) => timers = {}

\* a connect attempt whose promise has not settled
InFlight == \E i \in 1..Len(attempts) : ~attempts[i].timedOut

\* C10: in the retry loop alone the manager always is connected, has a connect
\* attempt in flight or has a reconnect timer pending; and a manager that is
\* not connected eventually is connected.
C10_RetryLoopLive ==
  /\ [](Connected(St) \/ InFlight \/ timers # {})
  /\ (~Connected(St)) ~> Connected(St)

C10_Witness ==
  ev.op = "connected" /\ ev.origin = "timer" /\ failures = MaxFailures

\* ---------------------------------------------------------------- properties of the streams
\* the newline-terminated lines of a text
CompleteLines(str) == front(split(str))

\* the values of the lines that are JSON texts, in order
RECURSIVE JSONValues(_)
JSONValues(lines) ==
  IF lines = <<>> THEN <<>>
  ELSE (IF IsJSON(trim(Head(lines))) THEN <<trim(Head(lines))>> ELSE <<>>)
         \o JSONValues(Tail(lines))

\* the number of lines that are not blank and are not JSON texts
RECURSIVE BadLines(_)
BadLines(lines) ==
  IF lines = <<>> THEN 0
  ELSE (IF trim(Head(lines)) # <<>> /\ ~IsJSON(trim(Head(lines))) THEN 1 ELSE 0)
         + BadLines(Tail(lines))

OfType(seq, type) == SelectSeq(seq, LAMBDA e : e.type = type)

Values(seq) == [i \in 1..Len(seq) |-> seq[i].value]

IsTransport == handler \in {"bt", "ble"}

\* C11: the messages submitted to the host are the values of the JSON lines
\* among the newline-terminated lines of the bytes received so far on the
\* session, one message per line, in wire order.
C11_MessagesInWireOrder ==
  IsTransport =>
    Values(OfType(delivered, "message")) = JSONValues(CompleteLines(toString(fed)))

\* C12: every newline-terminated line that is not blank and is not a JSON text
\* is logged as one parse failure and submitted as no message, the later lines
\* are still delivered, and the session and the reconnect timer stay as they were.
C12_BadLineLoggedOnce ==
  IsTransport =>
    /\ Len(OfType(delivered, "parseError")) = BadLines(CompleteLines(toString(fed)))
    /\ Len(OfType(delivered, "message")) >= Len(JSONValues(CompleteLines(toString(fed))))
    /\ Connected(St) /\ timers = {}

\* C13: on a session whose data handler is registered once, and on stdout and
\* stderr of a flash run, the lines framed from the chunks received so far and
\* the text left in the buffer are those of the same bytes received as one chunk.
C13_FramingIgnoresChunking ==
  /\ (IsTransport /\ dataListeners = 1) =>
       /\ delivered = Deliveries(toString(fed))
       /\ buffer = Remainder(toString(fed))
  /\ (handler = "stdout" /\ usbPc = "running") =>
       /\ Tail(emitted) = stdoutData(<<>>, fed).events
       /\ stdoutBuffer = stdoutData(<<>>, fed).buffer
  /\ (handler = "stderr" /\ usbPc = "running") =>
       /\ Tail(emitted) = stderrData(<<>>, fedErr).events
       /\ stderrBuffer = stderrData(<<>>, fedErr).buffer

Count(type) == Len(OfType(emitted, type))

\* C14: after 'close' with code 0 one 'complete' and no 'error' event has been
\* emitted; after 'close' with another code n no 'complete' event and one
\* 'error' event that names n.
C14_CloseCodeDecides ==
  \A code \in closedWith :
    IF code = 0
    THEN Count("complete") = 1 /\ Count("error") = 0
    ELSE /\ Count("complete") = 0
         /\ Len(SelectSeq(emitted, LAMBDA e : e.type = "error" /\ e.text = <<"exited">>
                                                /\ e.num = code)) = 1

C14_Witness ==
  /\ closedWith = {2} /\ handler = "stdout" /\ fed # <<>>
  /\ Count("complete") = 0 /\ Count("error") = 1

\* C15: a flashUSB invocation never has emitted two terminal events, and has
\* emitted one once chmod has failed, the process has reported an error or
\* the process has closed.
C15_OneTerminalEvent ==
  /\ Count("complete") + Count("error") <= 1
  /\ usbPc \in {"done", "failed", "closed"} => Count("complete") + Count("error") = 1

\* the percentages of the lines that match the pattern of a write report
RECURSIVE WriteReports(_)
WriteReports(lines) ==
  IF lines = <<>> THEN <<>>
  ELSE (IF progressMatch(Head(lines)) # <<>>
        THEN <<parseInt(progressMatch(Head(lines)))>> ELSE <<>>)
         \o WriteReports(Tail(lines))

\* C16: the 'progress' events emitted are, in order, one per newline-terminated
\* stdout line that matches 'Writing at 0x<hex>... (<digits> %)', with the
\* decimal value of the digits and the label 'Writing firmware...', wherever
\* the chunks ended.
C16_WriteProgress ==
  handler = "stdout" =>
    /\ [i \in 1..Count("progress") |-> OfType(emitted, "progress")[i].num]
         = WriteReports(CompleteLines(toString(fed)))
    /\ \A i \in 1..Count("progress") :
         OfType(emitted, "progress")[i].label = "Writing firmware..."

C16_Witness ==
  /\ handler = "stdout" /\ usbPc = "running"
  /\ Count("progress") = 2
  /\ OfType(emitted, "progress")[1].num = 42
  /\ OfType(emitted, "progress")[2].num = 2

\* ---------------------------------------------------------------- properties of the OTA upload
\* C17: a flashOTA invocation never has emitted two terminal events, and has
\* emitted one once the read has failed or one of the response-end, error and
\* timeout handlers has run.
C17_OneTerminalEventOTA ==
  /\ Count("complete") + Count("error") <= 1
  /\ (ota.pc = "done" \/ ota.handled) => Count("complete") + Count("error") = 1

\* the timeout was handled, then the error of the destroyed request
C17_Witness ==
  /\ ota.destroyed /\ ota.last.op = "error" /\ ota.last.wasCompleted
  /\ Count("error") = 1 /\ Count("complete") = 0

\* C18: after the 'error' handler has run with ECONNRESET or EPIPE, after
\* req.end() and before any terminal event, one 'complete' event and no
\* 'error' event has been emitted.
C18_ResetAfterEndCompletes ==
  (/\ ota.last.op = "error" /\ ota.last.code \in {"ECONNRESET", "EPIPE"}
   /\ ota.last.afterEnd /\ ~ota.last.wasCompleted)
    => Count("complete") = 1 /\ Count("error") = 0

C18_Witness ==
  /\ ota.last.op = "error" /\ ota.last.code = "ECONNRESET"
  /\ ota.last.afterEnd /\ ~ota.last.wasCompleted
  /\ ota.fileSize = MaxFileSize
  /\ Count("complete") = 1

Percents == [i \in 1..Count("progress") |-> OfType(emitted, "progress")[i].num]

\* C19: the progress percentages emitted by one invocation are non-decreasing
\* and lie in 0..100.
C19_ProgressMonotone ==
  ota.pc # "none" =>
    /\ \A i \in 1..Len(Percents) : Percents[i] \in 0..100
    /\ \A i \in 1..(Len(Percents) - 1) : Percents[i] <= Percents[i + 1]

\* the empty image, and an image of three chunks
C19_Witness ==
  /\ ota.pc = "sent"
  /\ \/ ota.fileSize = 0 /\ Percents = <<0, 100>>
     \/ ota.fileSize = MaxFileSize /\ Len(Percents) = 4 /\ Percents[2] < Percents[3]

\* C20: the i-th chunk written reports 100 exactly when it is the last chunk of
\* the body.
C20_HundredAtLastChunk ==
  ota.pc # "none" =>
    \A i \in 1..(Len(Percents) - 1) :
      (Percents[i + 1] = 100) <=> (Min(i * chunkSize, ota.bodyLen) = ota.bodyLen)

\* ---------------------------------------------------------------- flashOTA, the body
\* the write after the i-th one
WaitsForDrain(i) ==
  LET w == ota.writes[i]
      n == ota.writes[i + 1]
  IN /\ n.from = w.to
     /\ (~w.ok => n.run = w.run + 1)
     /\ (w.ok => n.run = w.run)

\* C21: after a req.write that returned false no chunk is written until the
\* 'drain' event runs writeNext again, and that run starts with the next
\* unsent chunk: in the history of writes the chunk after one that met
\* backpressure belongs to the next run of writeNext and starts where the
\* other ended, and while the loop waits no step but 'drain' writes
C21_BackpressureWaitsForDrain ==
  /\ [](\A i \in 1..(Len(ota.writes) - 1) : WaitsForDrain(i))
  /\ [][ota.pc = "waitDrain" /\ ota'.writes # ota.writes
        => /\ ota'.runs = ota.runs + 1
           /\ SubSeq(ota'.writes, 1, Len(ota.writes)) = ota.writes
           /\ ota'.writes[Len(ota.writes) + 1].from = ota.offset]_vars

C21_Witness ==
  /\ Len(ota.writes) = 3
  /\ ~ota.writes[1].ok /\ ota.writes[2].ok
  /\ ota.writes[2].run = 2 /\ ota.writes[3].run = 2

\* C22: whatever the pattern of backpressure and 'drain', the chunks written
\* have 1 to 16384 bytes, start at offset 0, each starts where the one before
\* ended, none goes past the body of header, firmware and footer, and
\* req.end() is called at most once, only when the last chunk has been
\* written up to the end of the body, and exactly once when the loop is done
C22_BodyWrittenInOrder ==
  /\ ota.bodyLen = (IF ota.pc \in {"none", "read", "done"} THEN 0
                    ELSE ota.headerLen + ota.fileSize + FooterLen)
  /\ \A i \in 1..Len(ota.writes) :
       /\ ota.writes[i].to - ota.writes[i].from \in 1..chunkSize
       /\ ota.writes[i].from = (IF i = 1 THEN 0 ELSE ota.writes[i - 1].to)
       /\ ota.writes[i].to <= ota.bodyLen
  /\ ota.endCalls = (IF ota.ended THEN 1 ELSE 0)
  /\ (ota.pc = "sent" => ota.ended)
  /\ (ota.ended => /\ ota.writes # <<>>
                   /\ ota.writes[Len(ota.writes)].to = ota.bodyLen)

C22_Witness ==
  /\ ota.ended /\ ota.endCalls = 1
  /\ Len(ota.writes) = 3 /\ ota.runs = 3
  /\ ota.writes[3].to = 398 + MaxFileSize + FooterLen
  /\ ~ota.writes[3].ok

\* C27: the 'error' handler reports a reset or a broken pipe as 'complete'
\* only when the whole body had been handed to the request: when it emits
\* 'complete', no chunk of the body was still unwritten
C27_CompleteOnlyAfterFullBody ==
  (/\ ota.last.op = "error"
   /\ ota.last.code \in {"EPIPE", "ECONNRESET"}
   /\ ~ota.last.wasCompleted)
  => ota.last.unsent = 0

\* ---------------------------------------------------------------- BLE, outbound
\* the concatenation of a sequence of chunks
RECURSIVE Concat(_)
Concat(chunks) == IF chunks = <<>> THEN <<>> ELSE Head(chunks) \o Concat(Tail(chunks))

\* C23: every message sent while a session is up is written to the rx
\* characteristic as chunks of at most 20 bytes, every chunk but the last of
\* exactly 20, in the order of the bytes: the chunks concatenated are the
\* UTF-8 bytes of the message's JSON text followed by a newline
C23_ChunksCarryTheMessage ==
  \A i \in 1..Len(sent) :
    sent[i].connected =>
      LET w == sent[i].writes
      IN /\ w # <<>>
         /\ \A j \in 1..Len(w) : Len(w[j]) \in 1..BLEchunkSize
         /\ \A j \in 1..(Len(w) - 1) : Len(w[j]) = BLEchunkSize
         /\ Concat(w) = BufferFrom(stringify(sent[i].message) \o <<"\n">>)

\* a message of 23 bytes whose two-byte character lies across the end of the
\* first chunk
C23_Witness ==
  \E i \in 1..Len(sent) :
    /\ sent[i].connected
    /\ Len(sent[i].writes) = 2
    /\ sent[i].writes[1][BLEchunkSize] = "L"
    /\ sent[i].writes[2] = <<"C", "\"", "\n">>

\* ---------------------------------------------------------------- BLE, device scans
\* the findPeripheral scans of connect attempts in flight
Finding == {i \in 1..Len(attempts) : attempts[i].pc = "scan"}

\* C24: at most one device scan runs at a time: while the promise of a
\* scanDevices call is pending it is the only one and no other scan of the
\* manager uses the adapter; until shutdown the adapter keeps scanning for it
\* with its service filter; a call made meanwhile is rejected and changes
\* nothing; once the scan has ended by timeout or start failure the flag is
\* down and a new call is accepted
C24_OneScanAtATime ==
  /\ [](scan.pending <= 1)
  /\ [](scan.isScanning <=> scan.pending = 1)
  /\ [](scan.pending = 1 => Finding = {})
  /\ [](scan.pending = 1 /\ ~isShuttingDown => scan.radio = "nus")
  /\ [][ev'.op = "scanRejected" => scan' = scan /\ scan.pending = 1]_vars
  /\ [][ev'.op \in {"scanResolved", "scanStartFailed"} => ~scan'.isScanning]_vars

\* ---------------------------------------------------------------- connect and reconnect
\* C25: when a connect() call made by the host fails, its promise rejects and
\* the call arms no reconnect timer: the step that rejects it leaves the
\* pending timers and the reconnectTimer field as they were
C25_ManualFailureArmsNoTimer ==
  [][(ev'.op = "connectFailed" /\ ev'.origin = "manual")
       => (timers' = timers /\ reconnectTimer' = reconnectTimer)]_vars

C25_Witness ==
  /\ ev.op = "connectFailed" /\ ev.origin = "manual"
  /\ initialized /\ SettingsAllowReconnect /\ ~isShuttingDown
  /\ timers = {} /\ reconnectTimer = Null

\* C26: a reconnect timer is armed only while the settings hold a saved device
\* and auto-connect is not disabled, and it is armed for that device; when a
\* disconnect event reaches a manager that is not shutting down and the
\* settings do not allow a reconnect, no timer is pending afterwards and the
\* reconnectTimer field is empty
C26_TimerOnlyIfSettingsAllow ==
  /\ [][timers' \ timers # {} =>
         /\ SettingsAllowReconnect
         /\ \A t \in timers' \ timers : t.dev = settings.device]_vars
  /\ [][(ev'.op = "closeEvent" /\ ~isShuttingDown /\ ~SettingsAllowReconnect)
         => (timers' = {} /\ reconnectTimer' = Null)]_vars

\* a disconnect event has reached a manager that is not shutting down and
\* whose settings forbid a reconnect
C26_Witness ==
  /\ ev.op = "closeEvent" /\ ~isShuttingDown /\ ~SettingsAllowReconnect
  /\ timers = {} /\ reconnectTimer = Null /\ ~Connected(St)

\* C28: when a reconnect timer fires while the manager is connected or after
\* shutdown has begun, the callback returns at once: no connect attempt is
\* started and no timer is armed, the state stays as it was but for the timer
\* that fired
C28_SkippedTimerDoesNothing ==
  [][ev'.op = "timerSkipped" =>
       /\ isShuttingDown \/ Connected(St)
       /\ attempts' = attempts
       /\ timers' \subseteq timers /\ Cardinality(timers') = Cardinality(timers) - 1
       /\ reconnectTimer' = reconnectTimer
       /\ open' = open /\ isShuttingDown' = isShuttingDown
       /\ connectedDevice' = connectedDevice /\ clientId' = clientId]_vars

\* a timer has fired on a connected manager
C28_Witness ==
  /\ ev.op = "timerSkipped"
  /\ Connected(St) /\ ~isShuttingDown
  /\ attempts = <<>> /\ timers = {}

\* the connect attempts whose promise has not settled
Unsettled == {i \in 1..Len(attempts) : ~attempts[i].timedOut}

\* C29: connection attempts are serialized: at no time are two attempts in
\* flight, and when an attempt starts no reconnect timer is pending
C29_AttemptsSerialized ==
  /\ [](Cardinality(Unsettled) <= 1)
  /\ [][Len(attempts') > Len(attempts) => timers' = {}]_vars

\* the session state is clear: no handle, no characteristics (BLE), no device
\* descriptor, no client id, an empty line buffer
SessionCleared(s) ==
  /\ s.connectedDevice = Null /\ s.clientId = Null /\ s.buffer = <<>>
  /\ s.kind = "ble" =>
       s.connectedPeripheral = Null /\ ~s.rxCharacteristic /\ ~s.txCharacteristic

C31_ChmodFailureOnlyError ==
  /\ [](usbPc = "done" =>
          /\ emitted = <<Event("error", <<"chmod">>, 0, "")>>
          /\ fed = <<>> /\ closedWith = {}
          /\ stdoutBuffer = <<>> /\ stderrBuffer = <<>>)
  /\ [][usbPc = "done" => usbPc' = "done" /\ emitted' = emitted]_vars

C31_Witness ==
  usbPc = "done" /\ Len(emitted) = 1 /\ emitted[1].type = "error" /\ wire # <<>>

\* the trimmed texts of the lines that are not blank
RECURSIVE NonBlank(_)
NonBlank(lines) ==
  IF lines = <<>> THEN <<>>
  ELSE (IF trim(Head(lines)) # <<>> THEN <<trim(Head(lines))>> ELSE <<>>)
         \o NonBlank(Tail(lines))

\* the 'message' events of the run after the command line, by stream: those
\* of stderr carry the prefix
IsStderrMessage(e) == e.type = "message" /\ e.text # <<>> /\ e.text[1] = "[stderr] "
StdoutTexts ==
  LET m == SelectSeq(Tail(emitted), LAMBDA e : e.type = "message" /\ ~IsStderrMessage(e))
  IN [i \in 1..Len(m) |-> m[i].text]
StderrTexts ==
  LET m == SelectSeq(Tail(emitted), IsStderrMessage)
  IN [i \in 1..Len(m) |-> Tail(m[i].text)]

\* C32: when the process closes, what is still buffered for stdout and for
\* stderr and is not blank is emitted as a 'message' each, trimmed, the one of
\* stderr with its prefix, and then the terminal event; and after the close
\* of a run with output on both streams the messages of each stream are the
\* non-blank lines of that stream, the unterminated last one included, in the
\* order in which they arrived
C32_CloseFlushesBuffers ==
  /\ [][usbPc = "running" /\ usbPc' = "closed" =>
         /\ Len(emitted') = Len(emitted) + (IF trim(stdoutBuffer) # <<>> THEN 1 ELSE 0)
                                        + (IF trim(stderrBuffer) # <<>> THEN 1 ELSE 0) + 1
         /\ SubSeq(emitted', 1, Len(emitted)) = emitted
         /\ emitted'[Len(emitted')].type \in {"complete", "error"}
         /\ trim(stdoutBuffer) # <<>> =>
              emitted'[Len(emitted) + 1] = Event("message", trim(stdoutBuffer), 0, "")
         /\ trim(stderrBuffer) # <<>> =>
              emitted'[Len(emitted') - 1]
                = Event("message", <<"[stderr] ">> \o trim(stderrBuffer), 0, "")]_vars
  /\ [](handler = "usb" /\ usbPc = "closed" =>
          /\ StdoutTexts = NonBlank(split(toString(fed)))
          /\ StderrTexts = NonBlank(split(toString(fedErr))))

\* a run has closed with unterminated text on both streams
C32_Witness ==
  /\ handler = "usb" /\ usbPc = "closed"
  /\ trim(stdoutBuffer) # <<>> /\ trim(stderrBuffer) # <<>>
  /\ Len(emitted) >= 4
  /\ emitted[Len(emitted) - 2] = Event("message", trim(stdoutBuffer), 0, "")
  /\ emitted[Len(emitted) - 1] = Event("message", <<"[stderr] ">> \o trim(stderrBuffer), 0, "")
  /\ emitted[Len(emitted)].type = "complete"

\* C33: every complete stdout line that is not blank gives exactly one
\* 'message' event, whatever patterns it matches, and a blank line gives
\* none: while the tool runs, the 'message' events after the command line are
\* as many as the non-blank complete lines received on stdout
C33_OneMessagePerLine ==
  (handler = "stdout" /\ usbPc = "running") =>
    Len(StdoutTexts) = Len(NonBlank(CompleteLines(toString(fed))))

\* ---------------------------------------------------------------- BLE, outbound failures
\* C34: when the write of chunk K of a message fails, the failure is logged
\* once and that is all: the chunks written for the message are still all of
\* its chunks, each once and in order (K is not written again, the chunks
\* after K are not dropped), and the step that handles the failure leaves the
\* session, the timers and the attempts as they were
C34_WriteFailureOnlyLogged ==
  /\ [](\A i \in 1..Len(sent) :
          /\ sent[i].logged = (IF sent[i].failed > 0 /\ sent[i].failing = 0 THEN 1 ELSE 0)
          /\ sent[i].writes
               = (IF sent[i].connected
                  THEN writeChunks(BufferFrom(stringify(sent[i].message) \o <<"\n">>), 0)
                  ELSE <<>>))
  /\ [][ev'.op = "writeFailed" =>
          /\ connectedPeripheral' = connectedPeripheral
          /\ rxCharacteristic' = rxCharacteristic /\ txCharacteristic' = txCharacteristic
          /\ connectedDevice' = connectedDevice /\ clientId' = clientId
          /\ timers' = timers /\ reconnectTimer' = reconnectTimer
          /\ attempts' = attempts /\ open' = open]_vars

\* the first of the two chunks of a message failed and was logged
C34_Witness ==
  \E i \in 1..Len(sent) :
    /\ sent[i].connected /\ Len(sent[i].writes) = 2
    /\ sent[i].failed = 1 /\ sent[i].logged = 1
    /\ Connected(St)

\* ---------------------------------------------------------------- rejected connects
\* C35: a connect() that rejects writes no settings and does not connect the
\* manager: the step that rejects a connect attempt leaves the saved settings
\* as they were, and the manager goes from not connected to connected only by
\* the step that resolves a connect attempt
C35_RejectedConnectLeavesNothing ==
  [][/\ ev'.op = "connectFailed" => settings' = settings
     /\ (~Connected(St) /\ Connected(St)') => ev'.op = "connected"]_vars

\* ---------------------------------------------------------------- flash event streams
\* C36: the terminal event of a flash invocation is the last event of its
\* stream: a 'complete' or 'error' event is followed by no event at all
C36_TerminalEventIsLast ==
  \A i \in 1..Len(emitted) :
    emitted[i].type \in {"complete", "error"} => i = Len(emitted)

\* ---------------------------------------------------------------- submissions of the managers
\* C37: no message is submitted to the host with a null client id: a 'data'
\* event whose handling submits a message finds the client id of a session set
C37_SubmittedWithClientId ==
  [][ev'.op \in {"submit", "submitAgain"} =>
       /\ clientId # Null
       /\ clientId = (IF kind = "bt" THEN BTClientId(connectedDevice)
                      ELSE BLEClientId(connectedPeripheral))]_vars

\* C38: whatever connects, disconnects, close events and reconnects came
\* before, the listeners of a 'data' event give the host each JSON line of the
\* chunk once: never more messages than one pass of handleData over it gives
C38_LineSubmittedOnce ==
  [][ev'.op # "submitAgain"]_vars

C40_StatusConsistent ==
  Connected(St) <=> (connectedDevice # Null /\ clientId # Null)

====
